---------------------------- MODULE Spec2Model ----------------------------
(***************************************************************************)
(* A model of the AVL viewer tooling of AVLConnectorToNTop:                *)
(*   - ntop/avl_viewer.py          main (the supervisor of the two AVL     *)
(*                                 children) and the neutral-point capture *)
(*   - ntop/avl_window_control.py  the window placement watcher and the    *)
(*                                 rectangle planner                       *)
(*   - ntop/avl_viewer_commands.py the orchestrator main talks to          *)
(* Python values that have no TLA+ counterpart are encoded as follows:     *)
(* None is the integer -1 where the other values are exit codes or window  *)
(* handles (both are >= 0 in the model); optional floats and files are     *)
(* records with a presence flag; text is a sequence of one-character       *)
(* strings.                                                                *)
(***************************************************************************)
EXTENDS Integers, Sequences, FiniteSets, TLC

(***************************************************************************)
(* Bounds of the model                                                     *)
(***************************************************************************)
\* exit codes a child may end with: 0..MaxExitCode
MaxExitCode == 2
\* the largest number of loop iterations a watcher gets before its
\* wall-clock deadline has certainly passed
MaxPolls == 2
\* screen widths and heights tried by the planner: 0..MaxScreen
MaxScreen == 8
\* lines of a report file
MaxLines == 2

None == -1

Children == {"geometry", "trefftz"}
ExitCodes == 0..MaxExitCode

\* the elements of a sequence
Called(seq) == {seq[i] : i \in DOMAIN seq}

\* the states of a path that has no modification time to give: it does not
\* exist (get_mtime returns None) or os.path.getmtime raises another
\* OSError; and the value of a variable not assigned yet
Missing == None
Denied == -2
Unset == -3

\* no file written; no arguments parsed
NoFile == <<"no file">>
NoArgs == [alpha_min |-> 0, alpha_max |-> 0, alpha_step |-> 0,
           create_commands |-> FALSE]

VARIABLES
    \* ---- main (avl_viewer.py) ----
    pc,               \* the statement main is at
    orchAttrs,        \* attribute names defined on the orchestrator object
    orchText,         \* the command-input attributes that hold text (the
                      \* others are None or "")
    stdinOpen,        \* stdinOpen[c]: child c reads its stdin pipe (it has
                      \* not closed its end)
    child,            \* child[c]: [status, code] of the Popen object of c
    termCalls,        \* the terminate() calls made so far, in order
    stdinLog,         \* stdinLog[c]: what was written and flushed to c's stdin
    warnings,         \* LOGGER.warning records of main so far
    watcher,          \* main's local `watcher` (return value of manage_windows_async)
    aliveAtCheck,     \* main's locals geometry_alive / trefftz_alive:
                      \* "unbound", "alive" or "exited"
    returns,          \* main's locals geometry_return / trefftz_return
    failure,          \* the exception main's `except Exception` caught, if any
    result,           \* main's return value
    outcome,          \* "running", "returned" or "interrupted"
    interruptedAt,    \* the statement a KeyboardInterrupt arrived at
    trace,            \* the statements main has completed, in order
    \* ---- placement watcher (avl_window_control.py) ----
    isWindows,        \* IS_WINDOWS
    screen,           \* GetSystemMetrics(0), GetSystemMetrics(1)
    wpc,              \* "idle", "polling", "finished"
    wPid,             \* _geometry_pid / _trefftz_pid
    wWindow,          \* _geometry_window / _trefftz_window
    wRects,           \* the rectangles computed at the start of run()
    wPolls,           \* loop iterations of run() so far
    wExpired,         \* time.time() >= deadline in run()
    wSeen,            \* wSeen[c]: discovery has returned a handle for c
    windows,          \* windows[c]: the handle lists window discovery may
                      \* yield for c during this run
    desktop,          \* the top-level windows EnumWindows enumerates, in
                      \* order: [hwnd, visible, pid, title]
    collected,        \* the latest call of _collect_process_windows on its
                      \* own: [pid, hwnds]
    mwCall,           \* the arguments of the call of manage_windows_async
                      \* on its own and what it logged: [geometry_pid,
                      \* trefftz_pid, pid, logged]
    wFound,           \* wFound[c]: what discovery returned for c in run()'s
                      \* latest iteration (<<>> if it was not called)
    wMoves,           \* wMoves[c]: handles run() tried to move in its latest iteration
    wLog,             \* processes run() logged a time-out warning for
    wCalls,           \* the _move_window calls of run()'s latest iteration,
                      \* in order: [who, hwnd, rect, ok]
    wMoveCount,       \* wMoveCount[c]: _move_window calls for c so far
    \* ---- neutral point capture (avl_viewer.py) ----
    report,           \* the stability (report) file
    summary,          \* the summary file
    summaryWrites,    \* successful writes of the summary file
    cpc,              \* "idle", "polling", "returned"
    cResult,          \* return value of capture_and_save_neutral_point
    cPolls,           \* loop iterations so far
    cExpired,         \* time.time() >= deadline in the capture loop
    cMatched,         \* what polls have met so far: "match", "float",
                      \* "read_error"
    cLog,             \* warnings logged by the capture function
    \* ---- watch_file.py ----
    wfpc,             \* where watch_file.main is
    interval,         \* args.interval, in seconds
    wfFile,           \* the watched path now: a modification time, Missing
                      \* or Denied
    baseline_mtime,   \* main's baseline_mtime (Unset before line 41)
    current_mtime,    \* main's current_mtime (Unset before the first pass)
    wfPolls,          \* passes of the polling loop so far
    wfResult,         \* what main returned (None while it has not)
    wfPrinted,        \* the lines printed, in order
    \* ---- create_flight_envelope.py ----
    epc,              \* where create_flight_envelope's main is
    args,             \* the parsed arguments: [alpha_min, alpha_max,
                      \* alpha_step, create_commands]
    alpha,            \* create_run_file's alpha
    alphas,           \* create_run_file's alphas
    runCases,         \* the run cases in the run file: their alphas, in
                      \* order (NoFile before the file is written)
    num_cases,        \* main's num_cases (None before line 166)
    cmdCases          \* the run cases the command script selects and
                      \* executes, in order (NoFile: no script)

\* what a run of main is given and does not change
givenVars == <<orchAttrs, orchText, stdinOpen>>
mainVars == <<pc, givenVars, child, termCalls, stdinLog, warnings, watcher,
              aliveAtCheck, returns, failure, result, outcome, interruptedAt,
              trace>>
watcherVars == <<isWindows, screen, wpc, wPid, wWindow, wRects, wPolls,
                 wExpired, wSeen, windows, desktop, collected, mwCall, wMoves, wLog, wCalls, wMoveCount, wFound>>
captureVars == <<report, summary, summaryWrites, cpc, cResult, cPolls,
                 cExpired, cMatched, cLog>>
watchVars == <<wfpc, interval, wfFile, baseline_mtime, current_mtime, wfPolls, wfResult,
               wfPrinted>>
sweepVars == <<epc, args, alpha, alphas, runCases, num_cases, cmdCases>>
vars == <<mainVars, watcherVars, captureVars, watchVars, sweepVars>>

(***************************************************************************)
(* Rectangle planner: _compute_target_rectangles                           *)
(***************************************************************************)
WindowPlacement(l, t, w, h) == [left |-> l, top |-> t, width |-> w, height |-> h]

NoRects == <<>>

\* A mutant of the planner: the Trefftz rectangle starts at the top of the
\* screen instead of at half_height.
ComputeTargetRectanglesSameTop(screen_width, screen_height) ==
    LET right_half_left == screen_width \div 2
        right_half_width == screen_width - right_half_left
        half_height == screen_height \div 2
    IN  << WindowPlacement(right_half_left, 0, right_half_width, half_height),
           WindowPlacement(right_half_left, 0, right_half_width,
                           screen_height - half_height) >>

\* <<geometry_rect, trefftz_rect>> for a screen of the given size
ComputeTargetRectangles(screen_width, screen_height) ==
    LET right_half_left == screen_width \div 2
        right_half_width == screen_width - right_half_left
        half_height == screen_height \div 2
    IN  << WindowPlacement(right_half_left, 0, right_half_width, half_height),
           WindowPlacement(right_half_left, half_height, right_half_width,
                           screen_height - half_height) >>

\* the interiors of two rectangles meet
Overlap(a, b) ==
    /\ a.left < b.left + b.width
    /\ b.left < a.left + a.width
    /\ a.top < b.top + b.height
    /\ b.top < a.top + a.height

PositiveArea(r) == r.width > 0 /\ r.height > 0

(***************************************************************************)
(* Text of the report file and of the summary file                         *)
(*                                                                         *)
(* A report is a sequence of lines.  A line is [np, tok]: np says that the *)
(* line holds the label part of NEUTRAL_POINT_PATTERN ("Neutral point",    *)
(* an optional colon, "Xnp" or "x/c", "="), tok is the longest run of      *)
(* characters of [-+0-9.eE] that follows it (the pattern's group 1).       *)
(***************************************************************************)
Digits == {"0", "1", "2", "3", "4", "5", "6", "7", "8", "9"}

DigitChars == <<"0", "1", "2", "3", "4", "5", "6", "7", "8", "9">>

DigitValue(c) == (CHOOSE i \in 1..10 : DigitChars[i] = c) - 1

RECURSIVE Pow10(_)
Pow10(n) == IF n <= 0 THEN 1 ELSE 10 * Pow10(n - 1)

\* int() of a sequence of digit characters
RECURSIVE DigitsToNat(_)
DigitsToNat(ds) ==
    IF ds = <<>> THEN 0
    ELSE 10 * DigitsToNat(SubSeq(ds, 1, Len(ds) - 1)) + DigitValue(ds[Len(ds)])

\* str() of a natural number, as characters
RECURSIVE NatToChars(_)
NatToChars(n) ==
    IF n < 10 THEN <<DigitChars[n + 1]>>
    ELSE NatToChars(n \div 10) \o <<DigitChars[(n % 10) + 1]>>

\* n written with exactly k digits (n < 10^k)
RECURSIVE ZeroPadded(_, _)
ZeroPadded(n, k) ==
    IF k = 0 THEN <<>>
    ELSE ZeroPadded(n \div 10, k - 1) \o <<DigitChars[(n % 10) + 1]>>

\* A float is kept as the decimal it was read from: (-1)^neg * mant / 10^scale,
\* with no trailing zero in mant when scale > 0.
NoValue == [some |-> FALSE, neg |-> FALSE, mant |-> 0, scale |-> 0]

RECURSIVE Normalised(_, _, _)
Normalised(neg, mant, scale) ==
    IF scale > 0 /\ mant % 10 = 0
    THEN Normalised(neg, mant \div 10, scale - 1)
    ELSE [some |-> TRUE, neg |-> neg, mant |-> mant, scale |-> scale]

\* float(tok): [ok |-> FALSE] stands for ValueError
ParseFloat(tok) ==
    LET hasSign == Len(tok) > 0 /\ tok[1] \in {"+", "-"}
        body == IF hasSign THEN Tail(tok) ELSE tok
        es == {i \in DOMAIN body : body[i] \in {"e", "E"}}
        ePos == IF es = {} THEN 0 ELSE CHOOSE i \in es : \A j \in es : i <= j
        mantissa == IF ePos = 0 THEN body ELSE SubSeq(body, 1, ePos - 1)
        expo == IF ePos = 0 THEN <<>> ELSE SubSeq(body, ePos + 1, Len(body))
        expSigned == Len(expo) > 0 /\ expo[1] \in {"+", "-"}
        expDigits == IF expSigned THEN Tail(expo) ELSE expo
        dots == {i \in DOMAIN mantissa : mantissa[i] = "."}
        mantOK == /\ Cardinality(dots) <= 1
                  /\ \A i \in (DOMAIN mantissa) \ dots : mantissa[i] \in Digits
                  /\ Cardinality((DOMAIN mantissa) \ dots) >= 1
        expOK == \/ ePos = 0
                 \/ /\ Len(expDigits) >= 1
                    /\ \A i \in DOMAIN expDigits : expDigits[i] \in Digits
        IsDigit(c) == c \in Digits
        frac == IF dots = {} THEN 0 ELSE Len(mantissa) - (CHOOSE i \in dots : TRUE)
        e == IF ePos = 0 THEN 0
             ELSE IF expSigned /\ expo[1] = "-" THEN 0 - DigitsToNat(expDigits)
             ELSE DigitsToNat(expDigits)
        m == DigitsToNat(SelectSeq(mantissa, IsDigit))
        v == IF frac - e >= 0 THEN Normalised(hasSign /\ tok[1] = "-", m, frac - e)
             ELSE Normalised(hasSign /\ tok[1] = "-", m * Pow10(e - frac), 0)
    IN  IF mantOK /\ expOK
        THEN [ok |-> TRUE, value |-> v]
        ELSE [ok |-> FALSE, value |-> NoValue]

\* digits after the decimal point in the summary: the 6 of "{neutral_value:.6f}"
SummaryDecimals == 6

\* A mutant of the formatting: one digit short.
FormatFixedShort(v, decimals) ==
    LET micro == IF v.scale <= decimals - 1
                 THEN v.mant * Pow10(decimals - 1 - v.scale)
                 ELSE v.mant \div Pow10(v.scale - (decimals - 1))
    IN  (IF v.neg THEN <<"-">> ELSE <<>>)
        \o NatToChars(micro \div Pow10(decimals - 1))
        \o <<".">>
        \o ZeroPadded(micro % Pow10(decimals - 1), decimals - 1)

\* f"{v:.<decimals>f}".  A value with more decimals is rounded to the
\* nearest; Python rounds the binary double, so an exact decimal tie may go
\* either way there and no tie is among the sample tokens.
FormatFixed(v, decimals) ==
    LET micro == IF v.scale <= decimals
                 THEN v.mant * Pow10(decimals - v.scale)
                 ELSE LET cut == Pow10(v.scale - decimals)
                      IN  (v.mant + cut \div 2) \div cut
    IN  (IF v.neg THEN <<"-">> ELSE <<>>)
        \o NatToChars(micro \div Pow10(decimals))
        \o <<".">>
        \o ZeroPadded(micro % Pow10(decimals), decimals)

\* the tokens tried after the label
Tokens ==
    { <<"0", ".", "2", "3", "4", "5">>,
      <<"-", ".", "5">>,
      <<"1", "e", "1">>,
      <<"0", ".", "1", "2", "3", "4", "5", "6", "7">>,
      <<"-", "0">>,
      <<".">>,
      <<"1", "e">> }

OtherLine == [np |-> FALSE, tok |-> <<>>]
ReportLines == {OtherLine} \cup [np : {TRUE}, tok : Tokens \cup {<<>>}]

\* A mutant of the search: the last match instead of the first.
SearchLast(lines) ==
    LET hits == {i \in DOMAIN lines : lines[i].np /\ Len(lines[i].tok) > 0}
    IN  IF hits = {} THEN 0 ELSE CHOOSE i \in hits : \A j \in hits : i >= j

\* NEUTRAL_POINT_PATTERN.search(text): the index of the first matching line,
\* 0 for no match
Search(lines) ==
    LET hits == {i \in DOMAIN lines : lines[i].np /\ Len(lines[i].tok) > 0}
    IN  IF hits = {} THEN 0 ELSE CHOOSE i \in hits : \A j \in hits : i <= j

\* files
Absent == [state |-> "absent", lines |-> <<>>]
Locked == [state |-> "locked", lines |-> <<>>]
TextFile(lines) == [state |-> "text", lines |-> lines]

NoSummary == [exists |-> FALSE, line1 |-> "", line2 |-> <<>>]
SummaryText(v) ==
    [exists |-> TRUE, line1 |-> "Xnp", line2 |-> FormatFixed(v, SummaryDecimals)]

(***************************************************************************)
(* The orchestrator object main talks to                                   *)
(*                                                                         *)
(* avl_viewer imports whichever avl_viewer_commands module is first on     *)
(* sys.path.  ShippedAttrs are the attributes of the AVLViewerOrchestrator *)
(* of ntop/avl_viewer_commands.py; ViewerAttrs are the further attributes  *)
(* main reads.  A run starts with the shipped class or with a class that   *)
(* also offers what main reads.                                            *)
(***************************************************************************)
ShippedAttrs ==
    { "le_csv", "te_csv", "avl_geometry", "output_dir", "alpha", "mach",
      "avl_executable", "geometry_file", "run_file", "command_script",
      "command_input", "working_directory" }

ViewerAttrs ==
    { "geometry_command_script", "geometry_command_input",
      "trefftz_command_input", "stability_file", "neutral_point_summary" }

OrchestratorClasses == {ShippedAttrs, ShippedAttrs \cup ViewerAttrs}

\* the attributes whose text main writes to a child
CommandInputs == {"geometry_command_input", "trefftz_command_input"}

(***************************************************************************)
(* main: helpers                                                           *)
(***************************************************************************)
NotLaunched == [status |-> "none", code |-> None]
Running == [status |-> "running", code |-> None]
Exited(code) == [status |-> "exited", code |-> code]

\* Popen.poll(): the return code, None while the child runs
Poll(c) == child[c].code

PidOf(c) == IF c = "geometry" THEN 1 ELSE 2

NoFailure == [kind |-> "none", who |-> "-", code |-> None]
Failure(kind, who, code) == [kind |-> kind, who |-> who, code |-> code]

\* the process runs: daemon threads die with it
ProcessAlive == pc # "done"

\* main's `except Exception` (lines 422-424): log, return 1
ReturnFailure(f) ==
    /\ pc' = "done"
    /\ outcome' = "returned"
    /\ result' = 1
    /\ failure' = f
    /\ trace' = Append(trace, pc)

\* line 426
ReturnSuccess ==
    /\ pc' = "done"
    /\ outcome' = "returned"
    /\ result' = 0
    /\ failure' = failure
    /\ trace' = Append(trace, pc)

Goto(label) ==
    /\ pc' = label
    /\ trace' = Append(trace, pc)
    /\ UNCHANGED <<outcome, result, failure>>

(***************************************************************************)
(* main: decisions                                                         *)
(***************************************************************************)
\* A mutant of the launch clean-up: no child is terminated.
LaunchFailureCleanupNone(c) == <<>>

\* the terminate() calls made when launching child c failed (lines 252-253,
\* 266-272)
LaunchFailureCleanup(c) == IF c = "trefftz" THEN <<"geometry">> ELSE <<>>

\* A mutant of the handlers: the handler of the geometry wait terminates the
\* geometry child only.
InterruptHandlerCallsGeometryOnly(at) ==
    IF at = "wait_geometry" THEN <<"geometry">>
    ELSE IF at = "wait_trefftz" THEN <<"trefftz">>
    ELSE <<>>

\* the terminate() calls of the `except KeyboardInterrupt` handler that
\* encloses statement `at` (lines 386-390, 398-403); no handler elsewhere
InterruptHandlerCalls(at) ==
    IF at = "wait_geometry" THEN <<"geometry", "trefftz">>
    ELSE IF at = "wait_trefftz" THEN <<"trefftz">>
    ELSE <<>>

\* A mutant of the liveness check: a child that exited with 0 passes.
LivenessFailureNonZeroOnly(geometry_alive, trefftz_alive, gcode, tcode) ==
    IF ~geometry_alive /\ gcode # 0 THEN Failure("crashed", "geometry", gcode)
    ELSE IF ~trefftz_alive /\ tcode # 0 THEN Failure("crashed", "trefftz", tcode)
    ELSE NoFailure

\* the RuntimeError of the liveness check (lines 359-371), NoFailure if none
LivenessFailure(geometry_alive, trefftz_alive, gcode, tcode) ==
    IF ~geometry_alive THEN Failure("crashed", "geometry", gcode)
    ELSE IF ~trefftz_alive THEN Failure("crashed", "trefftz", tcode)
    ELSE NoFailure

\* A mutant of the final check: the Trefftz code is not looked at.
ExitStatusFailureGeometryOnly(geometry_return, trefftz_return) ==
    IF geometry_return \notin {0, None}
    THEN Failure("nonzero", "geometry", geometry_return)
    ELSE NoFailure

\* A mutant of the final check: a Trefftz failure is reported as geometry's.
ExitStatusFailureWrongName(geometry_return, trefftz_return) ==
    IF geometry_return \notin {0, None}
    THEN Failure("nonzero", "geometry", geometry_return)
    ELSE IF trefftz_return \notin {0, None}
    THEN Failure("nonzero", "geometry", trefftz_return)
    ELSE NoFailure

\* A mutant of the final check: the test is inverted.
ExitStatusFailureInverted(geometry_return, trefftz_return) ==
    IF geometry_return \in {0, None}
    THEN Failure("nonzero", "geometry", geometry_return)
    ELSE IF trefftz_return \in {0, None}
    THEN Failure("nonzero", "trefftz", trefftz_return)
    ELSE NoFailure

\* A mutant of the final check: the Trefftz code is looked at first.
ExitStatusFailureTrefftzFirst(geometry_return, trefftz_return) ==
    IF trefftz_return \notin {0, None}
    THEN Failure("nonzero", "trefftz", trefftz_return)
    ELSE IF geometry_return \notin {0, None}
    THEN Failure("nonzero", "geometry", geometry_return)
    ELSE NoFailure

\* the RuntimeError of the final check (lines 413-420), NoFailure if none
ExitStatusFailure(geometry_return, trefftz_return) ==
    IF geometry_return \notin {0, None}
    THEN Failure("nonzero", "geometry", geometry_return)
    ELSE IF trefftz_return \notin {0, None}
    THEN Failure("nonzero", "trefftz", trefftz_return)
    ELSE NoFailure

\* write(text) and flush() on the stdin pipe of child c: the flush raises
\* (BrokenPipeError / OSError) when the child has gone or has closed its end
WriteSucceeds(c) == child[c].status = "running" /\ stdinOpen[c]

(***************************************************************************)
(* main: one action per statement group of avl_viewer.main                 *)
(***************************************************************************)
\* lines 226-236: build the orchestrator and prepare()
Prepare ==
    /\ pc = "prepare"
    /\ \E ok \in BOOLEAN :
         IF ok THEN Goto("build_command")
         ELSE ReturnFailure(Failure("prepare", "-", None))
    /\ UNCHANGED <<givenVars, child, termCalls, stdinLog, warnings, watcher,
                   aliveAtCheck, returns, interruptedAt>>
    /\ UNCHANGED <<watcherVars, captureVars, watchVars, sweepVars>>

\* A mutant of the launch: the geometry child is spawned before the
\* executable is looked for.
BuildLaunchCommandAfterSpawn ==
    /\ pc = "build_command"
    /\ child' = [child EXCEPT !["geometry"] = Running]
    /\ IF "geometry_command_script" \notin orchAttrs
       THEN ReturnFailure(Failure("attribute", "-", None))
       ELSE \E found \in BOOLEAN :
              IF found THEN Goto("launch_geometry")
              ELSE ReturnFailure(Failure("executable", "-", None))
    /\ UNCHANGED <<givenVars, termCalls, stdinLog, warnings, watcher,
                   aliveAtCheck, returns, interruptedAt>>
    /\ UNCHANGED <<watcherVars, captureVars, watchVars, sweepVars>>

\* line 239: read orchestrator.geometry_command_script, then
\* build_avl_launch_command (which detects the executable)
BuildLaunchCommand ==
    /\ pc = "build_command"
    /\ IF "geometry_command_script" \notin orchAttrs
       THEN ReturnFailure(Failure("attribute", "-", None))
       ELSE \E found \in BOOLEAN :
              IF found THEN Goto("launch_geometry")
              ELSE ReturnFailure(Failure("executable", "-", None))
    /\ UNCHANGED <<givenVars, child, termCalls, stdinLog, warnings, watcher,
                   aliveAtCheck, returns, interruptedAt>>
    /\ UNCHANGED <<watcherVars, captureVars, watchVars, sweepVars>>

\* lines 241-253 (geometry) and 255-272 (Trefftz): Popen
Launch(c, here, next) ==
    /\ pc = here
    /\ \E ok \in BOOLEAN :
         IF ok
         THEN /\ child' = [child EXCEPT ![c] = Running]
              /\ termCalls' = termCalls
              /\ Goto(next)
         ELSE /\ child' = child
              /\ termCalls' = termCalls \o LaunchFailureCleanup(c)
              /\ ReturnFailure(Failure("launch", c, None))
    /\ UNCHANGED <<givenVars, stdinLog, warnings, watcher, aliveAtCheck,
                   returns, interruptedAt>>
    /\ UNCHANGED <<watcherVars, captureVars, watchVars, sweepVars>>

LaunchGeometry == Launch("geometry", "launch_geometry", "launch_trefftz")

LaunchTrefftz == Launch("trefftz", "launch_trefftz", "manage_windows")

\* lines 274-278 with manage_windows_async (avl_window_control.py 50-91) and
\* the start of _WindowWatcher.run (112-125).  manage_windows_async has no
\* return statement: main's `watcher` is None whether or not a thread runs.
ManageWindows ==
    /\ pc = "manage_windows"
    /\ IF isWindows
       THEN /\ wpc' = "polling"
            /\ wPid' = [c \in Children |-> PidOf(c)]
            /\ wRects' = ComputeTargetRectangles(screen.width, screen.height)
       ELSE UNCHANGED <<wpc, wPid, wRects>>
    /\ watcher' = "None"
    /\ Goto("send_geometry")
    /\ UNCHANGED <<givenVars, child, termCalls, stdinLog, warnings,
                   aliveAtCheck, returns, interruptedAt>>
    /\ UNCHANGED <<isWindows, screen, wWindow, wPolls, wExpired, wSeen,
                   windows, desktop, collected, mwCall, wMoves, wLog, wCalls, wMoveCount, wFound>>
    /\ UNCHANGED <<captureVars, watchVars, sweepVars>>

\* a guarded write of `what` to child c's stdin; `attr` is the orchestrator
\* attribute the text comes from ("" for a literal).  Every exception,
\* AttributeError included, is logged as warning `name` and swallowed.  An
\* attribute that is None or "" makes the `if` skip the write silently.
SendTo(c, what, attr, name) ==
    IF attr # "" /\ attr \notin orchAttrs
    THEN /\ stdinLog' = stdinLog
         /\ warnings' = warnings \cup {name}
    ELSE IF attr # "" /\ attr \notin orchText
    THEN /\ stdinLog' = stdinLog
         /\ warnings' = warnings
    ELSE IF WriteSucceeds(c)
    THEN /\ stdinLog' = [stdinLog EXCEPT ![c] = Append(@, what)]
         /\ warnings' = warnings
    ELSE /\ stdinLog' = stdinLog
         /\ warnings' = warnings \cup {name}

\* A mutant of the delivery: a failed write to the geometry child ends the run.
SendGeometryCommandsEscalates ==
    /\ pc = "send_geometry"
    /\ stdinLog' = IF "geometry_command_input" \in orchText /\ WriteSucceeds("geometry")
                   THEN [stdinLog EXCEPT !["geometry"] = Append(@, "script")]
                   ELSE stdinLog
    /\ warnings' = warnings
    /\ IF "geometry_command_input" \in orchText /\ ~WriteSucceeds("geometry")
       THEN ReturnFailure(Failure("write", "geometry", None))
       ELSE Goto("send_trefftz")
    /\ UNCHANGED <<givenVars, child, termCalls, watcher, aliveAtCheck,
                   returns, interruptedAt>>
    /\ UNCHANGED <<watcherVars, captureVars, watchVars, sweepVars>>

\* lines 280-286
SendGeometryCommands ==
    /\ pc = "send_geometry"
    /\ SendTo("geometry", "script", "geometry_command_input", "send_geometry")
    /\ Goto("send_trefftz")
    /\ UNCHANGED <<givenVars, child, termCalls, watcher, aliveAtCheck,
                   returns, interruptedAt>>
    /\ UNCHANGED <<watcherVars, captureVars, watchVars, sweepVars>>

\* A mutant of the delivery: the capture thread is started with the scripts.
SendTrefftzCommandsStartsCapture ==
    /\ pc = "send_trefftz"
    /\ SendTo("trefftz", "script", "trefftz_command_input", "send_trefftz")
    /\ Goto("wait_watcher")
    /\ cpc' = "polling"
    /\ UNCHANGED <<givenVars, child, termCalls, watcher, aliveAtCheck,
                   returns, interruptedAt>>
    /\ UNCHANGED <<report, summary, summaryWrites, cResult, cPolls, cExpired,
                   cMatched, cLog>>
    /\ UNCHANGED <<watcherVars, watchVars, sweepVars>>

\* lines 288-301
SendTrefftzCommands ==
    /\ pc = "send_trefftz"
    /\ SendTo("trefftz", "script", "trefftz_command_input", "send_trefftz")
    /\ Goto("wait_watcher")
    /\ UNCHANGED <<givenVars, child, termCalls, watcher, aliveAtCheck,
                   returns, interruptedAt>>
    /\ UNCHANGED <<watcherVars, captureVars, watchVars, sweepVars>>

\* A mutant of the grace loop: it looks at the watcher thread itself and
\* fails the run when the thread has given up on a window.
WaitForWatcherEscalates ==
    /\ pc = "wait_watcher"
    /\ IF wLog # {}
       THEN ReturnFailure(Failure("watcher", "-", None))
       ELSE Goto("settle")
    /\ UNCHANGED <<givenVars, child, termCalls, stdinLog, warnings, watcher,
                   aliveAtCheck, returns, interruptedAt>>
    /\ UNCHANGED <<watcherVars, captureVars, watchVars, sweepVars>>

\* lines 303-317: with a watcher object, wait until it has finished or 5 s
\* have passed (then a warning); with None, nothing
WaitForWatcher ==
    /\ pc = "wait_watcher"
    /\ IF watcher = "None"
       THEN warnings' = warnings
       ELSE \E still_running \in (IF wpc = "finished" THEN {FALSE} ELSE BOOLEAN) :
              warnings' = IF still_running
                          THEN warnings \cup {"watcher_still_running"}
                          ELSE warnings
    /\ Goto("settle")
    /\ UNCHANGED <<givenVars, child, termCalls, stdinLog, watcher,
                   aliveAtCheck, returns, interruptedAt>>
    /\ UNCHANGED <<watcherVars, captureVars, watchVars, sweepVars>>

\* A mutant of the settle delay: the refresh commands follow at once.
SettleBeforeRefreshSkipped ==
    /\ pc = "settle"
    /\ SendTo("geometry", "refresh", "", "refresh_geometry")
    /\ pc' = "refresh_trefftz"
    /\ trace' = Append(trace, "refresh_geometry")
    /\ UNCHANGED <<outcome, result, failure>>
    /\ UNCHANGED <<givenVars, child, termCalls, watcher, aliveAtCheck,
                   returns, interruptedAt>>
    /\ UNCHANGED <<watcherVars, captureVars, watchVars, sweepVars>>

\* lines 319-320: time.sleep(1.0)
SettleBeforeRefresh ==
    /\ pc = "settle"
    /\ Goto("refresh_geometry")
    /\ UNCHANGED <<givenVars, child, termCalls, stdinLog, warnings, watcher,
                   aliveAtCheck, returns, interruptedAt>>
    /\ UNCHANGED <<watcherVars, captureVars, watchVars, sweepVars>>

\* lines 322-342: the geometry refresh commands, then time.sleep(0.3)
RefreshGeometry ==
    /\ pc = "refresh_geometry"
    /\ SendTo("geometry", "refresh", "", "refresh_geometry")
    /\ Goto("refresh_trefftz")
    /\ UNCHANGED <<givenVars, child, termCalls, watcher, aliveAtCheck,
                   returns, interruptedAt>>
    /\ UNCHANGED <<watcherVars, captureVars, watchVars, sweepVars>>

\* lines 344-349
RefreshTrefftz ==
    /\ pc = "refresh_trefftz"
    /\ SendTo("trefftz", "refresh", "", "refresh_trefftz")
    /\ Goto("verify_alive")
    /\ UNCHANGED <<givenVars, child, termCalls, watcher, aliveAtCheck,
                   returns, interruptedAt>>
    /\ UNCHANGED <<watcherVars, captureVars, watchVars, sweepVars>>

\* lines 351-356: time.sleep(3.0), then geometry_alive = poll() is None.  The
\* Trefftz child is polled in the next statement: a child may exit between
\* the two polls.
PollGeometryAlive ==
    /\ pc = "verify_alive"
    /\ aliveAtCheck' = [aliveAtCheck EXCEPT !["geometry"] =
                           IF Poll("geometry") = None THEN "alive" ELSE "exited"]
    /\ pc' = "verify_alive_trefftz"
    /\ UNCHANGED <<outcome, result, failure, trace>>
    /\ UNCHANGED <<givenVars, child, termCalls, stdinLog, warnings, watcher,
                   returns, interruptedAt>>
    /\ UNCHANGED <<watcherVars, captureVars, watchVars, sweepVars>>

\* the end of the liveness check, with failure f or without one: the
\* statement group that began at "verify_alive" is complete
EndOfLivenessCheck(f) ==
    /\ trace' = Append(trace, "verify_alive")
    /\ IF f = NoFailure
       THEN /\ pc' = "schedule_capture"
            /\ UNCHANGED <<outcome, result, failure>>
       ELSE /\ pc' = "done"
            /\ outcome' = "returned"
            /\ result' = 1
            /\ failure' = f

\* A mutant of the liveness check: main takes a child that has gone off the
\* watcher's list of tracked processes.
VerifyAliveUntracksExited ==
    /\ pc = "verify_alive_trefftz"
    /\ LET geometry_alive == aliveAtCheck["geometry"] = "alive"
           trefftz_alive == Poll("trefftz") = None
           f == LivenessFailure(geometry_alive, trefftz_alive,
                                child["geometry"].code, child["trefftz"].code)
       IN  /\ aliveAtCheck' = [aliveAtCheck EXCEPT !["trefftz"] =
                                 IF trefftz_alive THEN "alive" ELSE "exited"]
           /\ wPid' = [c \in Children |->
                         IF Poll(c) = None THEN wPid[c] ELSE None]
           /\ EndOfLivenessCheck(f)
    /\ UNCHANGED <<givenVars, child, termCalls, stdinLog, warnings, watcher,
                   returns, interruptedAt>>
    /\ UNCHANGED <<isWindows, screen, wpc, wWindow, wRects, wPolls, wExpired,
                   wSeen, windows, desktop, collected, mwCall, wMoves, wLog, wCalls, wMoveCount, wFound>>
    /\ UNCHANGED <<captureVars, watchVars, sweepVars>>

\* lines 357-373: trefftz_alive = poll() is None, then fail if one of the
\* two was found gone, the geometry child first
VerifyAlive ==
    /\ pc = "verify_alive_trefftz"
    /\ LET geometry_alive == aliveAtCheck["geometry"] = "alive"
           trefftz_alive == Poll("trefftz") = None
           f == LivenessFailure(geometry_alive, trefftz_alive,
                                child["geometry"].code, child["trefftz"].code)
       IN  /\ aliveAtCheck' = [aliveAtCheck EXCEPT !["trefftz"] =
                                 IF trefftz_alive THEN "alive" ELSE "exited"]
           /\ EndOfLivenessCheck(f)
    /\ UNCHANGED <<givenVars, child, termCalls, stdinLog, warnings, watcher,
                   returns, interruptedAt>>
    /\ UNCHANGED <<watcherVars, captureVars, watchVars, sweepVars>>

\* lines 375-378 with schedule_neutral_point_capture (129-145): no thread
\* if either path is None
ScheduleCapture ==
    /\ pc = "schedule_capture"
    /\ IF {"stability_file", "neutral_point_summary"} \subseteq orchAttrs
       THEN /\ \E configured \in BOOLEAN :
                 cpc' = IF configured THEN "polling" ELSE cpc
            /\ Goto("wait_geometry")
       ELSE /\ cpc' = cpc
            /\ ReturnFailure(Failure("attribute", "-", None))
    /\ UNCHANGED <<givenVars, child, termCalls, stdinLog, warnings, watcher,
                   aliveAtCheck, returns, interruptedAt>>
    /\ UNCHANGED <<report, summary, summaryWrites, cResult, cPolls, cExpired,
                   cMatched, cLog>>
    /\ UNCHANGED <<watcherVars, watchVars, sweepVars>>

\* lines 380-385: geometry_process.wait() returns once the child has exited
WaitGeometry ==
    /\ pc = "wait_geometry"
    /\ child["geometry"].status = "exited"
    /\ returns' = [returns EXCEPT !["geometry"] = child["geometry"].code]
    /\ Goto("poll_trefftz")
    /\ UNCHANGED <<givenVars, child, termCalls, stdinLog, warnings, watcher,
                   aliveAtCheck, interruptedAt>>
    /\ UNCHANGED <<watcherVars, captureVars, watchVars, sweepVars>>

\* A mutant of the Trefftz check: main takes whatever poll() gives and does
\* not wait.
PollTrefftzNoWait ==
    /\ pc = "poll_trefftz"
    /\ returns' = [returns EXCEPT !["trefftz"] = Poll("trefftz")]
    /\ Goto("join_capture")
    /\ UNCHANGED <<givenVars, child, termCalls, stdinLog, warnings, watcher,
                   aliveAtCheck, interruptedAt>>
    /\ UNCHANGED <<watcherVars, captureVars, watchVars, sweepVars>>

\* lines 392 and 404-408: the Trefftz child has exited already, or not yet
PollTrefftz ==
    /\ pc = "poll_trefftz"
    /\ IF Poll("trefftz") = None
       THEN /\ returns' = returns
            /\ Goto("wait_trefftz")
       ELSE /\ returns' = [returns EXCEPT !["trefftz"] = child["trefftz"].code]
            /\ Goto("join_capture")
    /\ UNCHANGED <<givenVars, child, termCalls, stdinLog, warnings, watcher,
                   aliveAtCheck, interruptedAt>>
    /\ UNCHANGED <<watcherVars, captureVars, watchVars, sweepVars>>

\* lines 393-397: trefftz_process.wait()
WaitTrefftz ==
    /\ pc = "wait_trefftz"
    /\ child["trefftz"].status = "exited"
    /\ returns' = [returns EXCEPT !["trefftz"] = child["trefftz"].code]
    /\ Goto("join_capture")
    /\ UNCHANGED <<givenVars, child, termCalls, stdinLog, warnings, watcher,
                   aliveAtCheck, interruptedAt>>
    /\ UNCHANGED <<watcherVars, captureVars, watchVars, sweepVars>>

\* A mutant of the join: a capture that ended without a value fails the run.
JoinCaptureEscalates ==
    /\ pc = "join_capture"
    /\ IF cpc = "returned" /\ ~cResult.some
       THEN ReturnFailure(Failure("capture", "-", None))
       ELSE Goto("final_status")
    /\ UNCHANGED <<givenVars, child, termCalls, stdinLog, warnings, watcher,
                   aliveAtCheck, returns, interruptedAt>>
    /\ UNCHANGED <<watcherVars, captureVars, watchVars, sweepVars>>

\* lines 410-411: capture_thread.join(timeout=1.0) comes back when the
\* thread has ended or after a second; the thread's return value is lost
JoinCapture ==
    /\ pc = "join_capture"
    /\ Goto("final_status")
    /\ UNCHANGED <<givenVars, child, termCalls, stdinLog, warnings, watcher,
                   aliveAtCheck, returns, interruptedAt>>
    /\ UNCHANGED <<watcherVars, captureVars, watchVars, sweepVars>>

\* lines 413-426
FinalStatus ==
    /\ pc = "final_status"
    /\ LET f == ExitStatusFailure(returns["geometry"], returns["trefftz"])
       IN  IF f = NoFailure THEN ReturnSuccess ELSE ReturnFailure(f)
    /\ UNCHANGED <<givenVars, child, termCalls, stdinLog, warnings, watcher,
                   aliveAtCheck, returns, interruptedAt>>
    /\ UNCHANGED <<watcherVars, captureVars, watchVars, sweepVars>>

\* Ctrl-C while main is at any statement.  Only the two waits sit in a
\* `try ... except KeyboardInterrupt`; the handler terminates and re-raises.
\* KeyboardInterrupt is no Exception, so line 422 does not catch it.
KeyboardInterrupt ==
    /\ pc # "done"
    /\ termCalls' = termCalls \o InterruptHandlerCalls(pc)
    /\ interruptedAt' = pc
    /\ pc' = "done"
    /\ outcome' = "interrupted"
    /\ UNCHANGED <<givenVars, child, stdinLog, warnings, watcher,
                   aliveAtCheck, returns, failure, result, trace>>
    /\ UNCHANGED <<watcherVars, captureVars, watchVars, sweepVars>>

\* a launched child ends (the user closes its window, AVL quits or crashes)
ChildExits ==
    /\ ProcessAlive
    /\ \E c \in Children, code \in ExitCodes :
         /\ child[c].status = "running"
         /\ child' = [child EXCEPT ![c] = Exited(code)]
    /\ UNCHANGED <<pc, givenVars, termCalls, stdinLog, warnings, watcher,
                   aliveAtCheck, returns, failure, result, outcome,
                   interruptedAt, trace>>
    /\ UNCHANGED <<watcherVars, captureVars, watchVars, sweepVars>>

(***************************************************************************)
(* The placement watcher thread: _WindowWatcher.run                        *)
(***************************************************************************)
\* window handles of child c: k-th window of process PidOf(c)
Handle(c, k) == PidOf(c) * 10 + k

\* the lists discovery may yield for c when c shows up to n windows
WindowLists(c, n) ==
    LET hs == {Handle(c, k) : k \in 1..n}
    IN  {<<>>} \cup {<<h>> : h \in hs}
               \cup {<<h1, h2>> : <<h1, h2>> \in {p \in hs \X hs : p[1] # p[2]}}

\* the handles of hwnds up to and including the first one in `movable`:
\* the _move_window calls of `for hwnd in hwnds: if _move_window(...): break`
RECURSIVE MoveAttempts(_, _)
MoveAttempts(hwnds, movable) ==
    IF hwnds = <<>> THEN <<>>
    ELSE IF Head(hwnds) \in movable THEN <<Head(hwnds)>>
    ELSE <<Head(hwnds)>> \o MoveAttempts(Tail(hwnds), movable)

\* the rectangle run() moves the windows of child c to
TargetRect(c) == IF c = "geometry" THEN wRects[1] ELSE wRects[2]

\* the _move_window calls of one pass for child c, with their results
MoveCalls(c, hwnds, movable) ==
    LET tried == MoveAttempts(hwnds, movable)
    IN  [i \in 1..Len(tried) |->
           [who |-> c, hwnd |-> tried[i], rect |-> TargetRect(c),
            ok |-> tried[i] \in movable]]

\* A mutant of the loop: the first handle tried is recorded as the window,
\* whether or not its move succeeded.
MovedWindowAnyAttempt(hwnds, movable) ==
    IF hwnds # <<>> THEN Head(hwnds) ELSE None

\* the window run() records: the handle whose move succeeded, else None
MovedWindow(hwnds, movable) ==
    LET tried == MoveAttempts(hwnds, movable)
    IN  IF tried # <<>> /\ tried[Len(tried)] \in movable
        THEN tried[Len(tried)]
        ELSE None

\* A mutant of the tests of lines 129 and 145: a process is looked for
\* whether or not a window is recorded for it.
SearchingAllTracked == {c \in Children : wPid[c] # None}

\* the processes run() looks for in its next pass (lines 129, 145): tracked,
\* no window recorded
Searching == {c \in Children : wPid[c] # None /\ wWindow[c] = None}

\* A mutant of discovery: it is run for every tracked process in every pass.
DiscoveryAllTracked(c) ==
    IF wPid[c] # None THEN windows[c] ELSE {<<>>}

\* what _collect_process_windows may return for c in the next pass of run():
\* it is called only for a tracked process that has no window yet
Discovery(c) ==
    IF c \in Searching THEN windows[c] ELSE {<<>>}

\* Which of the handles MoveWindow succeeds on matters up to the first
\* success only (the loop breaks there): none, or one of them.
FirstMovable(hwnds) == {{}} \cup {{h} : h \in Called(hwnds)}

\* A mutant of the loop's exit test: the Trefftz process is not looked at.
AllPositionedGeometryOnly(window) ==
    wPid["geometry"] = None \/ window["geometry"] # None

\* geometry_done and trefftz_done (lines 161-164) for the windows recorded
AllPositioned(window) ==
    \A c \in Children : wPid[c] = None \/ window[c] # None

\* One pass of the `while time.time() < deadline` loop (lines 127-168), or
\* the loop's end with its time-out warnings (170-181).  fg and ft are what
\* _collect_process_windows returns during this pass, `movable` are the
\* handles MoveWindow succeeds on.
WatcherPoll ==
    /\ ProcessAlive
    /\ wpc = "polling"
    /\ IF wExpired
       THEN /\ wpc' = "finished"
            /\ wLog' = {c \in Children : wPid[c] # None /\ wWindow[c] = None}
            /\ UNCHANGED <<wWindow, wPolls, wSeen, wMoves, wCalls, wMoveCount, wFound>>
       ELSE /\ wPolls < MaxPolls
            /\ LET looked_for == Searching IN
               \E fg \in Discovery("geometry"), ft \in Discovery("trefftz") :
               \E mg \in FirstMovable(fg), mt \in FirstMovable(ft) :
                 LET searching(c) == c \in looked_for
                     hwnds(c) == IF c = "geometry" THEN fg ELSE ft
                     movable == mg \cup mt
                     window(c) == IF searching(c)
                                  THEN MovedWindow(hwnds(c), movable)
                                  ELSE wWindow[c]
                 IN  /\ wFound' = [c \in Children |-> hwnds(c)]
                     /\ wWindow' = [c \in Children |-> window(c)]
                     /\ wMoves' = [c \in Children |->
                                     MoveAttempts(hwnds(c), movable)]
                     /\ wCalls' = MoveCalls("geometry", hwnds("geometry"), movable)
                                   \o MoveCalls("trefftz", hwnds("trefftz"), movable)
                     /\ wMoveCount' = [c \in Children |->
                             wMoveCount[c] + Len(MoveAttempts(hwnds(c), movable))]
                     /\ wSeen' = [c \in Children |->
                                    wSeen[c] \/ hwnds(c) # <<>>]
                     /\ IF AllPositioned([c \in Children |-> window(c)])
                        THEN wpc' = "finished" /\ wPolls' = wPolls
                        ELSE wpc' = "polling" /\ wPolls' = wPolls + 1
                     /\ wLog' = wLog
    /\ UNCHANGED <<isWindows, screen, wPid, wRects, wExpired, windows, desktop, collected, mwCall>>
    /\ UNCHANGED <<mainVars, captureVars, watchVars, sweepVars>>

\* the wall clock passes the deadline of run() (line 118: 60 s by default)
WatcherDeadlinePasses ==
    /\ ProcessAlive
    /\ wpc = "polling"
    /\ ~wExpired
    /\ wExpired' = TRUE
    /\ UNCHANGED <<isWindows, screen, wpc, wPid, wWindow, wRects, wPolls,
                   wSeen, windows, desktop, collected, mwCall, wMoves, wLog, wCalls, wMoveCount, wFound>>
    /\ UNCHANGED <<mainVars, captureVars, watchVars, sweepVars>>

(***************************************************************************)
(* The capture function: capture_and_save_neutral_point                    *)
(***************************************************************************)
\* how one pass of the capture loop goes for the report file as it is:
\* no file (line 77), read_text raises OSError (80), no match (86), float()
\* raises ValueError (89), or a value
PassKind(file) ==
    IF file.state = "absent" THEN "no_file"
    ELSE IF file.state = "locked" THEN "read_error"
    ELSE IF Search(file.lines) = 0 THEN "no_match"
    ELSE IF ~ParseFloat(file.lines[Search(file.lines)].tok).ok THEN "value_error"
    ELSE "value"

\* A mutant of the loop: a read error is not retried.
RetriedNoReadError == {"no_file", "no_match", "value_error"}

\* the passes after which the loop sleeps and tries again (lines 81-83,
\* 90-92, 113)
Retried == {"no_file", "read_error", "no_match", "value_error"}

\* A mutant of the save: a failed write is tried again on the next pass.
SaveAndReturnRetriesWrite(neutral_value) ==
    \E written \in BOOLEAN :
       IF written
       THEN /\ summary' = SummaryText(neutral_value)
            /\ summaryWrites' = summaryWrites + 1
            /\ cLog' = cLog
            /\ cpc' = "returned"
            /\ cResult' = neutral_value
            /\ cPolls' = cPolls
       ELSE /\ summary' = summary
            /\ summaryWrites' = summaryWrites
            /\ cLog' = cLog \cup {"write_failed"}
            /\ cpc' = cpc
            /\ cResult' = cResult
            /\ cPolls' = cPolls + 1

\* the value is written to the summary file, or the write raises OSError and
\* a warning is logged; either way the value is returned (lines 94-111)
SaveAndReturn(neutral_value) ==
    /\ \E written \in BOOLEAN :
          IF written
          THEN /\ summary' = SummaryText(neutral_value)
               /\ summaryWrites' = summaryWrites + 1
               /\ cLog' = cLog
          ELSE /\ summary' = summary
               /\ summaryWrites' = summaryWrites
               /\ cLog' = cLog \cup {"write_failed"}
    /\ cpc' = "returned"
    /\ cResult' = neutral_value
    /\ cPolls' = cPolls

\* One pass of the `while time.time() < deadline` loop (lines 76-113), or
\* the loop's end (115-126).
CapturePoll ==
    /\ ProcessAlive
    /\ cpc = "polling"
    /\ IF cExpired
       THEN /\ cpc' = "returned"
            /\ cResult' = NoValue
            /\ cLog' = cLog \cup {"timeout"}
            /\ UNCHANGED <<summary, summaryWrites, cPolls, cMatched>>
       ELSE /\ cPolls < MaxPolls
            /\ LET hit == IF report.state = "text"
                          THEN Search(report.lines) ELSE 0
                   parsed == IF hit > 0 THEN ParseFloat(report.lines[hit].tok)
                             ELSE [ok |-> FALSE, value |-> NoValue]
                   kind == PassKind(report)
               IN  /\ cMatched' = cMatched
                                  \cup (IF hit > 0 THEN {"match"} ELSE {})
                                  \cup (IF parsed.ok THEN {"float"} ELSE {})
                                  \cup (IF kind = "read_error"
                                        THEN {"read_error"} ELSE {})
                   /\ IF kind \notin Retried
                      THEN SaveAndReturn(parsed.value)
                      ELSE /\ cPolls' = cPolls + 1
                           /\ UNCHANGED <<summary, summaryWrites, cpc,
                                          cResult, cLog>>
    /\ UNCHANGED <<report, cExpired>>
    /\ UNCHANGED <<mainVars, watcherVars, watchVars, sweepVars>>

\* the wall clock passes the capture deadline (line 73: 10 s)
CaptureDeadlinePasses ==
    /\ ProcessAlive
    /\ cpc = "polling"
    /\ ~cExpired
    /\ cExpired' = TRUE
    /\ UNCHANGED <<report, summary, summaryWrites, cpc, cResult, cPolls,
                   cMatched, cLog>>
    /\ UNCHANGED <<mainVars, watcherVars, watchVars, sweepVars>>

\* the reports a run of main is tried with
MainReports ==
    { Absent,
      Locked,
      TextFile(<<OtherLine>>),
      TextFile(<<[np |-> TRUE, tok |-> <<"0", ".", "2", "3", "4", "5">>]>>) }

\* every report of up to MaxLines lines
RECURSIVE LineSeqs(_)
LineSeqs(n) ==
    IF n = 0 THEN {<<>>}
    ELSE LET shorter == LineSeqs(n - 1)
         IN  shorter \cup {Append(ls, l) : ls \in shorter, l \in ReportLines}

Reports ==
    {Absent} \cup {[state |-> st, lines |-> ls] :
                     st \in {"locked", "text"}, ls \in LineSeqs(MaxLines)}

\* AVL creates the report file or appends a line to it
ReportGrows ==
    /\ cpc = "polling"
    /\ Len(report.lines) < MaxLines
    /\ \E l \in ReportLines :
         report' = [state |-> IF report.state = "absent" THEN "text"
                              ELSE report.state,
                    lines |-> Append(report.lines, l)]
    /\ UNCHANGED <<summary, summaryWrites, cpc, cResult, cPolls, cExpired,
                   cMatched, cLog>>
    /\ UNCHANGED <<mainVars, watcherVars, watchVars, sweepVars>>

\* the report file becomes unreadable (locked by its writer) or readable
ReportLockChanges ==
    /\ cpc = "polling"
    /\ report.state # "absent"
    /\ report' = [report EXCEPT !.state = IF @ = "text" THEN "locked"
                                          ELSE "text"]
    /\ UNCHANGED <<summary, summaryWrites, cpc, cResult, cPolls, cExpired,
                   cMatched, cLog>>
    /\ UNCHANGED <<mainVars, watcherVars, watchVars, sweepVars>>

(***************************************************************************)
(* The viewer: main with its two threads and the two children              *)
(***************************************************************************)
MainScreen == [width |-> 1920, height |-> 1080]

\* nothing launched, nothing written, no local of main bound
InitLocals ==
    /\ child = [c \in Children |-> NotLaunched]
    /\ termCalls = <<>>
    /\ stdinLog = [c \in Children |-> <<>>]
    /\ warnings = {}
    /\ watcher = "None"
    /\ aliveAtCheck = [c \in Children |-> "unbound"]
    /\ returns = [c \in Children |-> None]
    /\ failure = NoFailure
    /\ result = None
    /\ outcome = "running"
    /\ interruptedAt = "-"
    /\ trace = <<>>

\* main has not been called: a function of the modules is used on its own
NotInMain ==
    /\ pc = "lib"
    /\ orchAttrs = ShippedAttrs
    /\ orchText = {}
    /\ stdinOpen = [c \in Children |-> TRUE]
    /\ InitLocals

\* main is called; the orchestrator's command inputs hold text and both
\* children read their stdin
InitMain ==
    /\ pc = "prepare"
    /\ orchAttrs \in OrchestratorClasses
    /\ orchText = CommandInputs \cap orchAttrs
    /\ stdinOpen = [c \in Children |-> TRUE]
    /\ InitLocals

\* _collect_process_windows is not called on its own
NoCall == [pid |-> None, hwnds |-> <<>>]

NoDiscoveryCall ==
    /\ desktop = <<>>
    /\ collected = NoCall

\* manage_windows_async is not called on its own
NoManageCall == [geometry_pid |-> None, trefftz_pid |-> None, pid |-> None,
                 logged |-> "-"]

InitWatcher ==
    /\ wpc = "idle"
    /\ mwCall = NoManageCall
    /\ wPid = [c \in Children |-> None]
    /\ wWindow = [c \in Children |-> None]
    /\ wRects = NoRects
    /\ wPolls = 0
    /\ wExpired = FALSE
    /\ wSeen = [c \in Children |-> FALSE]
    /\ wMoves = [c \in Children |-> <<>>]
    /\ wLog = {}
    /\ wCalls = <<>>
    /\ wFound = [c \in Children |-> <<>>]
    /\ wMoveCount = [c \in Children |-> 0]

\* watch_file.py is not run
NoWatchFile ==
    /\ wfpc = "idle"
    /\ interval = 0
    /\ wfFile = Missing
    /\ baseline_mtime = Unset
    /\ current_mtime = Unset
    /\ wfPolls = 0
    /\ wfResult = None
    /\ wfPrinted = <<>>

\* create_flight_envelope.py is not run
NoSweep ==
    /\ epc = "idle"
    /\ args = NoArgs
    /\ alpha = 0
    /\ alphas = <<>>
    /\ runCases = NoFile
    /\ num_cases = None
    /\ cmdCases = NoFile

InitCapture ==
    /\ summary = NoSummary
    /\ summaryWrites = 0
    /\ cpc = "idle"
    /\ cResult = NoValue
    /\ cPolls = 0
    /\ cExpired = FALSE
    /\ cMatched = {}
    /\ cLog = {}

Init ==
    /\ InitMain
    /\ InitWatcher
    /\ NoWatchFile
    /\ NoSweep
    /\ NoDiscoveryCall
    /\ InitCapture
    /\ isWindows \in BOOLEAN
    /\ screen = MainScreen
    /\ windows \in { [c \in Children |-> {<<>>}],
                     [c \in Children |-> {<<Handle(c, 1)>>}] }
    /\ report \in MainReports

Next ==
    \/ Prepare
    \/ BuildLaunchCommand
    \/ LaunchGeometry
    \/ LaunchTrefftz
    \/ ManageWindows
    \/ SendGeometryCommands
    \/ SendTrefftzCommands
    \/ WaitForWatcher
    \/ SettleBeforeRefresh
    \/ RefreshGeometry
    \/ RefreshTrefftz
    \/ PollGeometryAlive
    \/ VerifyAlive
    \/ ScheduleCapture
    \/ WaitGeometry
    \/ PollTrefftz
    \/ WaitTrefftz
    \/ JoinCapture
    \/ FinalStatus
    \/ KeyboardInterrupt
    \/ ChildExits
    \/ WatcherPoll
    \/ WatcherDeadlinePasses
    \/ CapturePoll
    \/ CaptureDeadlinePasses

Spec == Init /\ [][Next]_vars

(***************************************************************************)
(* Command delivery: main with an orchestrator that offers what main reads, *)
(* whose command inputs may be empty, and children that may have closed    *)
(* their stdin.  No window shows up and no report is written.              *)
(***************************************************************************)
InitDelivery ==
    /\ pc = "prepare"
    /\ orchAttrs = ShippedAttrs \cup ViewerAttrs
    /\ orchText \in SUBSET CommandInputs
    /\ stdinOpen \in [Children -> BOOLEAN]
    /\ InitLocals
    /\ InitWatcher
    /\ NoWatchFile
    /\ NoSweep
    /\ NoDiscoveryCall
    /\ InitCapture
    /\ isWindows \in BOOLEAN
    /\ screen = MainScreen
    /\ windows = [c \in Children |-> {<<>>}]
    /\ report = Absent

SpecDelivery == InitDelivery /\ [][Next]_vars

(***************************************************************************)
(* The placement watcher on its own: manage_windows_async called for one   *)
(* or two processes whose windows come, go and change order, on screens    *)
(* that include the degenerate ones                                        *)
(***************************************************************************)
\* windows a process shows at most
MaxWindows == 2

\* a usual screen and the two with a side of zero
WatcherScreens ==
    { [width |-> MaxScreen, height |-> MaxScreen],
      [width |-> 0, height |-> MaxScreen],
      [width |-> MaxScreen, height |-> 0] }

InitWatcherCall ==
    /\ NotInMain
    /\ InitWatcher
    /\ NoWatchFile
    /\ NoSweep
    /\ NoDiscoveryCall
    /\ InitCapture
    /\ isWindows = TRUE
    /\ screen \in WatcherScreens
    /\ windows = [c \in Children |-> WindowLists(c, MaxWindows)]
    /\ report = Absent

\* manage_windows_async(geometry_pid, trefftz_pid) with at least one pid
\* (lines 81-91), then the start of run() (112-125)
StartWatcher ==
    /\ pc = "lib"
    /\ wpc = "idle"
    /\ \E tracked \in (SUBSET Children) \ {{}} :
         wPid' = [c \in Children |-> IF c \in tracked THEN PidOf(c) ELSE None]
    /\ wRects' = ComputeTargetRectangles(screen.width, screen.height)
    /\ wpc' = "polling"
    /\ UNCHANGED <<isWindows, screen, wWindow, wPolls, wExpired, wSeen,
                   windows, desktop, collected, mwCall, wMoves, wLog, wCalls, wMoveCount, wFound>>
    /\ UNCHANGED <<mainVars, captureVars, watchVars, sweepVars>>

NextWatcher ==
    \/ StartWatcher
    \/ WatcherPoll
    \/ WatcherDeadlinePasses

SpecWatcher == InitWatcherCall /\ [][NextWatcher]_vars

\* The watcher on the usual screen only
InitWatcherOneScreen ==
    /\ InitWatcherCall
    /\ screen = [width |-> MaxScreen, height |-> MaxScreen]

SpecWatcherOneScreen == InitWatcherOneScreen /\ [][NextWatcher]_vars

\* The watcher on one screen, each process showing one window or none, with
\* the watcher thread scheduled and the wall clock advancing.
InitWatcherFair ==
    /\ NotInMain
    /\ InitWatcher
    /\ NoWatchFile
    /\ NoSweep
    /\ NoDiscoveryCall
    /\ InitCapture
    /\ isWindows = TRUE
    /\ screen = [width |-> MaxScreen, height |-> MaxScreen]
    /\ windows = [c \in Children |-> WindowLists(c, 1)]
    /\ report = Absent

SpecWatcherFair ==
    /\ InitWatcherFair
    /\ [][NextWatcher]_vars
    /\ WF_vars(WatcherPoll)
    /\ WF_vars(WatcherDeadlinePasses)

(***************************************************************************)
(* The planner on its own: _compute_target_rectangles for every screen     *)
(***************************************************************************)
InitPlanner ==
    /\ NotInMain
    /\ InitWatcher
    /\ NoWatchFile
    /\ NoSweep
    /\ NoDiscoveryCall
    /\ InitCapture
    /\ isWindows = TRUE
    /\ screen \in [width : 0..MaxScreen, height : 0..MaxScreen]
    /\ windows = [c \in Children |-> {<<>>}]
    /\ report = Absent

PlanRectangles ==
    /\ isWindows
    /\ wRects = NoRects
    /\ wRects' = ComputeTargetRectangles(screen.width, screen.height)
    /\ UNCHANGED <<isWindows, screen, wpc, wPid, wWindow, wPolls, wExpired,
                   wSeen, windows, desktop, collected, mwCall, wMoves, wLog, wCalls, wMoveCount, wFound>>
    /\ UNCHANGED <<mainVars, captureVars, watchVars, sweepVars>>

NextPlanner == PlanRectangles

SpecPlanner == InitPlanner /\ [][NextPlanner]_vars

(***************************************************************************)
(* The capture function on its own, called with any report file            *)
(***************************************************************************)
InitCaptureCall ==
    /\ NotInMain
    /\ InitWatcher
    /\ NoWatchFile
    /\ NoSweep
    /\ NoDiscoveryCall
    /\ isWindows = FALSE
    /\ screen = MainScreen
    /\ windows = [c \in Children |-> {<<>>}]
    /\ report \in Reports
    /\ summary = NoSummary
    /\ summaryWrites = 0
    /\ cpc = "polling"
    /\ cResult = NoValue
    /\ cPolls = 0
    /\ cExpired = FALSE
    /\ cMatched = {}
    /\ cLog = {}

NextCapture ==
    \/ CapturePoll
    \/ CaptureDeadlinePasses
    \/ ReportGrows
    \/ ReportLockChanges

SpecCapture == InitCaptureCall /\ [][NextCapture]_vars

(***************************************************************************)
(* Window discovery on its own: _collect_process_windows called for a      *)
(* process id on any desktop of up to MaxWindows windows                   *)
(***************************************************************************)
\* window titles, as characters
Titles == { <<>>, <<" ">>, <<"A">>, <<" ", "A", " ">> }

\* str.strip() for blanks
RECURSIVE StripLeft(_)
StripLeft(t) ==
    IF t # <<>> /\ Head(t) = " " THEN StripLeft(Tail(t)) ELSE t

RECURSIVE StripRight(_)
StripRight(t) ==
    IF t # <<>> /\ t[Len(t)] = " "
    THEN StripRight(SubSeq(t, 1, Len(t) - 1))
    ELSE t

Strip(t) == StripRight(StripLeft(t))

\* _get_window_text: "" for a title of length 0, else the stripped title
GetWindowText(w) == IF Len(w.title) = 0 THEN <<>> ELSE Strip(w.title)

\* A mutant of the enumeration callback: hidden windows are taken too.
RECURSIVE CollectProcessWindowsHiddenToo(_, _)
CollectProcessWindowsHiddenToo(pid, ws) ==
    IF ws = <<>> THEN <<>>
    ELSE LET w == Head(ws)
             rest == CollectProcessWindowsHiddenToo(pid, Tail(ws))
         IN  IF w.pid # pid THEN rest
             ELSE IF GetWindowText(w) = <<>> THEN rest
             ELSE <<w.hwnd>> \o rest

\* _collect_process_windows(pid) on the windows ws that EnumWindows hands to
\* enum_proc, in order
RECURSIVE CollectProcessWindows(_, _)
CollectProcessWindows(pid, ws) ==
    IF ws = <<>> THEN <<>>
    ELSE LET w == Head(ws)
             rest == CollectProcessWindows(pid, Tail(ws))
         IN  IF ~w.visible THEN rest
             ELSE IF w.pid # pid THEN rest
             ELSE IF GetWindowText(w) = <<>> THEN rest
             ELSE <<w.hwnd>> \o rest

\* the pids asked for: the two children's, and one that no process has
Pids == {PidOf(c) : c \in Children} \cup {3}

DesktopWindows ==
    [hwnd : 1..MaxWindows, visible : BOOLEAN,
     pid : {PidOf(c) : c \in Children}, title : Titles]

\* the desktops of up to n windows, each with a handle of its own
RECURSIVE Desktops(_)
Desktops(n) ==
    IF n = 0 THEN {<<>>}
    ELSE LET shorter == Desktops(n - 1)
             longest == {d \in shorter : Len(d) = n - 1}
             fresh == {p \in longest \X DesktopWindows :
                         \A i \in DOMAIN p[1] : p[1][i].hwnd # p[2].hwnd}
         IN  shorter \cup {Append(p[1], p[2]) : p \in fresh}

InitDiscovery ==
    /\ NotInMain
    /\ InitWatcher
    /\ NoWatchFile
    /\ NoSweep
    /\ InitCapture
    /\ isWindows = TRUE
    /\ screen = MainScreen
    /\ windows = [c \in Children |-> {<<>>}]
    /\ report = Absent
    /\ desktop \in Desktops(MaxWindows)
    /\ collected = NoCall

CollectCall ==
    /\ isWindows
    /\ \E pid \in Pids :
         collected' = [pid |-> pid,
                       hwnds |-> CollectProcessWindows(pid, desktop)]
    /\ UNCHANGED <<isWindows, screen, wpc, wPid, wWindow, wRects, wPolls,
                   wExpired, wSeen, windows, desktop, mwCall, wMoves, wLog, wCalls,
                   wMoveCount, wFound>>
    /\ UNCHANGED <<mainVars, captureVars, watchVars, sweepVars>>

NextDiscovery == CollectCall

SpecDiscovery == InitDiscovery /\ [][NextDiscovery]_vars

(***************************************************************************)
(* Properties                                                              *)
(***************************************************************************)
Launched(c) == child[c].status # "none"

MainReturned == pc = "done" /\ outcome = "returned"

MainInterrupted == pc = "done" /\ outcome = "interrupted"

\* C1: when the launch of a child fails, main returns 1 and terminate() has
\* been called on every child launched before; for a failed Trefftz launch
\* that is the geometry child.
C1_LaunchFailureTerminatesLaunched ==
    (MainReturned /\ failure.kind = "launch") =>
        /\ result = 1
        /\ \A c \in Children : Launched(c) => c \in Called(termCalls)
        /\ failure.who = "trefftz" => termCalls = <<"geometry">>

C1_Witness ==
    /\ MainReturned
    /\ failure = Failure("launch", "trefftz", None)
    /\ Launched("geometry")
    /\ result = 1

C3_InterruptAlwaysTerminatesBoth ==
    (MainInterrupted /\ \A c \in Children : Launched(c)) =>
        {"geometry", "trefftz"} \subseteq Called(termCalls)

\* C4 as stated: both children launched and both exited with 0, at whatever
\* moment, and main returns 0.
C4_BothZeroMeansSuccess ==
    (MainReturned /\ \A c \in Children : child[c] = Exited(0)) => result = 0

\* C4 amended: both children still run at the liveness check and both exit
\* with 0 afterwards, and main returns 0.
C4_BothZeroAfterCheckMeansSuccess ==
    ( /\ MainReturned
      /\ \A c \in Children : aliveAtCheck[c] = "alive" /\ child[c] = Exited(0) )
    => result = 0

C4_Witness ==
    /\ MainReturned
    /\ \A c \in Children : aliveAtCheck[c] = "alive" /\ child[c] = Exited(0)
    /\ result = 0

\* C5 as stated: geometry exits with 0, Trefftz with c # 0, and main fails
\* naming the Trefftz instance and c.
C5_TrefftzFailureReported ==
    ( /\ MainReturned
      /\ child["geometry"] = Exited(0)
      /\ child["trefftz"].status = "exited"
      /\ child["trefftz"].code # 0 )
    => /\ result = 1
       /\ failure.who = "trefftz"
       /\ failure.code = child["trefftz"].code

\* C5 amended: the same when the geometry child still runs at the liveness
\* check (and exits with 0 if it exits before main returns).
C5_TrefftzFailureReportedAfterCheck ==
    ( /\ MainReturned
      /\ aliveAtCheck["geometry"] = "alive"
      /\ child["geometry"].code \in {0, None}
      /\ child["trefftz"].status = "exited"
      /\ child["trefftz"].code # 0 )
    => /\ result = 1
       /\ failure.who = "trefftz"
       /\ failure.code = child["trefftz"].code

C5_Witness ==
    /\ MainReturned
    /\ aliveAtCheck = [c \in Children |-> "alive"]
    /\ child["geometry"] = Exited(0)
    /\ child["trefftz"] = Exited(2)
    /\ failure = Failure("nonzero", "trefftz", 2)

\* C6: after both children passed the liveness check and ended, main
\* returns 0 exactly if both observed codes are 0 or None, and otherwise 1
\* with one failure that names a child and that child's non-zero code.
C6_ResultIffCodesZero ==
    (MainReturned /\ \A c \in Children : aliveAtCheck[c] = "alive") =>
        /\ result \in {0, 1}
        /\ result = 0 <=> \A c \in Children : returns[c] \in {0, None}
        /\ result = 0 => failure = NoFailure
        /\ result = 1 =>
              /\ failure.kind = "nonzero"
              /\ failure.who \in Children
              /\ failure.code = returns[failure.who]
              /\ failure.code \notin {0, None}

C6_Witness ==
    /\ MainReturned
    /\ \A c \in Children : aliveAtCheck[c] = "alive"
    /\ returns["geometry"] = 0
    /\ returns["trefftz"] # 0
    /\ result = 1

\* What main returns when only the children decide: 1 if a child had gone at
\* the liveness check or a wait observed a non-zero code, else 0.
ChildVerdict ==
    IF \E c \in Children : aliveAtCheck[c] = "exited" THEN 1
    ELSE IF \E c \in Children : returns[c] \notin {0, None} THEN 1
    ELSE 0

\* C7: a tracked process whose windows discovery never returned before the
\* watcher ended is left without a window and named in the watcher's
\* time-out warnings, and whatever the watcher did, a main that launched
\* both children returns what the children's exits alone decide.
C7_WatcherTimeoutIsCosmetic ==
    /\ \A c \in Children :
         (wpc = "finished" /\ wPid[c] # None /\ ~wSeen[c]) =>
             /\ c \in wLog
             /\ wWindow[c] = None
             /\ wMoves[c] = <<>>
    /\ (MainReturned /\ \A c \in Children : Launched(c)) =>
          /\ result = ChildVerdict
          /\ failure.kind \in {"none", "crashed", "nonzero"}

C7_Witness ==
    /\ MainReturned
    /\ result = 0
    /\ wpc = "finished"
    /\ wExpired
    /\ wPid["geometry"] # None
    /\ ~wSeen["geometry"]
    /\ "geometry" \in wLog

\* what Python gives for float(tok) and f"{float(tok):.6f}" on the sample
\* tokens float() accepts
FloatOf(tok) ==
    CASE tok = <<"0", ".", "2", "3", "4", "5">> ->
           [some |-> TRUE, neg |-> FALSE, mant |-> 2345, scale |-> 4]
      [] tok = <<"-", ".", "5">> ->
           [some |-> TRUE, neg |-> TRUE, mant |-> 5, scale |-> 1]
      [] tok = <<"1", "e", "1">> ->
           [some |-> TRUE, neg |-> FALSE, mant |-> 10, scale |-> 0]
      [] tok = <<"0", ".", "1", "2", "3", "4", "5", "6", "7">> ->
           [some |-> TRUE, neg |-> FALSE, mant |-> 1234567, scale |-> 7]
      [] tok = <<"-", "0">> ->
           [some |-> TRUE, neg |-> TRUE, mant |-> 0, scale |-> 0]
      [] OTHER -> NoValue

SixDecimalsOf(tok) ==
    CASE tok = <<"0", ".", "2", "3", "4", "5">> ->
           <<"0", ".", "2", "3", "4", "5", "0", "0">>
      [] tok = <<"-", ".", "5">> ->
           <<"-", "0", ".", "5", "0", "0", "0", "0", "0">>
      [] tok = <<"1", "e", "1">> ->
           <<"1", "0", ".", "0", "0", "0", "0", "0", "0">>
      [] tok = <<"0", ".", "1", "2", "3", "4", "5", "6", "7">> ->
           <<"0", ".", "1", "2", "3", "4", "5", "7">>
      [] tok = <<"-", "0">> ->
           <<"-", "0", ".", "0", "0", "0", "0", "0", "0">>
      [] OTHER -> <<>>

\* line i of the report is the first one the pattern matches
FirstMatchAt(i) ==
    /\ report.state = "text"
    /\ i \in DOMAIN report.lines
    /\ report.lines[i].np /\ report.lines[i].tok # <<>>
    /\ \A j \in 1..(i - 1) : ~(report.lines[j].np /\ report.lines[j].tok # <<>>)

\* C8 as stated: once a poll has read a report with a match, the call has
\* returned a value and the summary has been written exactly once.
C8_MatchAlwaysSaved ==
    "match" \in cMatched =>
        /\ cpc = "returned"
        /\ cResult.some
        /\ summaryWrites = 1
        /\ summary.exists

\* C8 amended: once a poll has read a report whose first match is text that
\* float() accepts, the call has stopped polling and returned that value,
\* and, unless the write failed, the summary has been written exactly once
\* as "Xnp" and the value with six decimals.
C8_FirstFloatMatchSaved ==
    /\ "float" \in cMatched =>
          /\ cpc = "returned"
          /\ \E i \in DOMAIN report.lines :
                /\ FirstMatchAt(i)
                /\ FloatOf(report.lines[i].tok).some
                /\ cResult = FloatOf(report.lines[i].tok)
                /\ IF "write_failed" \in cLog
                   THEN summaryWrites = 0 /\ summary = NoSummary
                   ELSE /\ summaryWrites = 1
                        /\ summary = [exists |-> TRUE, line1 |-> "Xnp",
                                      line2 |-> SixDecimalsOf(report.lines[i].tok)]
    /\ (cpc = "returned" /\ cResult.some) => "float" \in cMatched
    /\ summaryWrites <= 1

C8_Witness ==
    /\ cpc = "returned"
    /\ report.state = "text"
    /\ Len(report.lines) = 2
    /\ FirstMatchAt(2)
    /\ cPolls > 0
    /\ summaryWrites = 1
    /\ summary.line1 = "Xnp"
    /\ summary.line2 = <<"0", ".", "2", "3", "4", "5", "0", "0">>

\* C9: a capture call that ends without any poll having found a match has
\* returned None at its time-out and has written no summary, and whatever
\* the capture did, a main that launched both children returns what the
\* children's exits alone decide, with no failure other than theirs.
C9_NoMatchIsCosmetic ==
    /\ (cpc = "returned" /\ "match" \notin cMatched) =>
          /\ ~cResult.some
          /\ summaryWrites = 0
          /\ summary = NoSummary
          /\ "timeout" \in cLog
    /\ (MainReturned /\ cpc = "returned" /\ ~cResult.some) =>
          /\ result = ChildVerdict
          /\ result = 0 => failure = NoFailure
          /\ failure.kind \in {"none", "crashed", "nonzero"}

C9_Witness ==
    /\ MainReturned
    /\ result = 0
    /\ cpc = "returned"
    /\ ~cResult.some
    /\ "timeout" \in cLog
    /\ report.state = "text"
    /\ ~summary.exists

\* C10 as stated: for a screen of positive width and height the two
\* rectangles do not overlap and each has positive width and height.
C10_DisjointAndPositive ==
    (wRects # NoRects /\ screen.width > 0 /\ screen.height > 0) =>
        /\ ~Overlap(wRects[1], wRects[2])
        /\ PositiveArea(wRects[1])
        /\ PositiveArea(wRects[2])

\* C10 amended: for a screen of positive width and height the two rectangles
\* do not overlap and the Trefftz rectangle has positive width and height;
\* the geometry rectangle has them too when the height is at least 2.
C10_DisjointAndPositiveFromTwo ==
    (wRects # NoRects /\ screen.width > 0 /\ screen.height > 0) =>
        /\ ~Overlap(wRects[1], wRects[2])
        /\ PositiveArea(wRects[2])
        /\ wRects[1].width > 0
        /\ screen.height >= 2 => PositiveArea(wRects[1])
        /\ wRects[1].top + wRects[1].height = wRects[2].top

C10_Witness ==
    /\ wRects # NoRects
    /\ screen.width = 3
    /\ screen.height = 5
    /\ wRects[1] = WindowPlacement(1, 0, 2, 2)
    /\ wRects[2] = WindowPlacement(1, 2, 2, 3)

\* C11 .. C20

\* how the process of `sys.exit(main())` ends (line 430): with main's return
\* value as exit code, or with the KeyboardInterrupt that left main uncaught
ProcessEnd ==
    IF outcome = "returned" THEN [how |-> "exit", code |-> result]
    ELSE [how |-> "uncaught KeyboardInterrupt", code |-> None]

\* C12: the entry point ends with exit code 0, 1 or 130, and after a user
\* interrupt with 130, never with an uncaught exception.
C12_ExitCodeIsZeroOneOr130 ==
    pc = "done" =>
        /\ ProcessEnd.how = "exit"
        /\ ProcessEnd.code \in {0, 1, 130}
        /\ interruptedAt # "-" => ProcessEnd.code = 130

\* C13: when a child has gone at the liveness check, with any code, main
\* returns 1 with the failure of that check, has waited on no child and has
\* not started the capture.
C13_ExitedAtCheckIsFatal ==
    (MainReturned /\ \E c \in Children : aliveAtCheck[c] = "exited") =>
        /\ result = 1
        /\ failure.kind = "crashed"
        /\ aliveAtCheck[failure.who] = "exited"
        /\ failure.code = child[failure.who].code
        /\ trace[Len(trace)] = "verify_alive"
        /\ returns = [c \in Children |-> None]
        /\ cpc = "idle"
        /\ \A i \in DOMAIN trace :
              trace[i] \notin {"schedule_capture", "wait_geometry",
                               "poll_trefftz", "wait_trefftz"}

C13_Witness ==
    /\ MainReturned
    /\ aliveAtCheck = [c \in Children |-> IF c = "trefftz" THEN "exited" ELSE "alive"]
    /\ child["trefftz"] = Exited(0)
    /\ failure = Failure("crashed", "trefftz", 0)
    /\ result = 1

\* C14: when the liveness check finds one child gone and the other running,
\* terminate() is called on the running one before main returns.
C14_SiblingTerminated ==
    (MainReturned /\ failure.kind = "crashed") =>
        \A c \in Children : aliveAtCheck[c] = "alive" => c \in Called(termCalls)

\* C17: with the AVLViewerOrchestrator of avl_viewer_commands.py no run of
\* main fails for an attribute the orchestrator does not have.
C17_NoMissingAttribute ==
    (pc = "done" /\ orchAttrs = ShippedAttrs) => failure.kind # "attribute"

\* the write of each delivery step: its child, the text, the attribute it is read from
DeliverySteps ==
    { [step |-> "send_geometry", to |-> "geometry", text |-> "script",
       attr |-> "geometry_command_input"],
      [step |-> "send_trefftz", to |-> "trefftz", text |-> "script",
       attr |-> "trefftz_command_input"],
      [step |-> "refresh_geometry", to |-> "geometry", text |-> "refresh", attr |-> ""],
      [step |-> "refresh_trefftz", to |-> "trefftz", text |-> "refresh", attr |-> ""] }

Done(step) == \E i \in DOMAIN trace : trace[i] = step

\* main completed step a and later step b
Before(a, b) ==
    \E j \in DOMAIN trace : trace[j] = b /\ \E i \in 1..(j - 1) : trace[i] = a

\* C15: a write to a child's stdin that raises is logged as a warning and
\* nothing else: the text is not in the child's input, main goes on with the
\* next step and returns what the children's exits alone decide.
C15_WriteFailureIsAbsorbed ==
    /\ \A d \in DeliverySteps :
          /\ d.step \in warnings =>
                /\ Done(d.step)
                /\ d.text \notin Called(stdinLog[d.to])
                /\ pc = "done" => (outcome = "interrupted" \/ trace[Len(trace)] # d.step)
          /\ (Done(d.step) /\ d.step \notin warnings) =>
                (d.text \in Called(stdinLog[d.to]) \/ (d.attr # "" /\ d.attr \notin orchText))
    /\ (MainReturned /\ \A c \in Children : Launched(c)) =>
          /\ result = ChildVerdict
          /\ failure.kind \in {"none", "crashed", "nonzero"}
          /\ trace[Len(trace)] \in {"verify_alive", "final_status"}

C15_Witness ==
    /\ MainReturned
    /\ result = 0
    /\ "send_geometry" \in warnings
    /\ "refresh_geometry" \in warnings
    /\ stdinLog = [c \in Children |-> IF c = "geometry" THEN <<>> ELSE <<"script", "refresh">>]

\* C19 as stated: text reaches a child's stdin only after both launches, and
\* the refresh commands reach it only after its initial script was written
\* and the settle delay has passed.
C19_RefreshOnlyAfterScriptWritten ==
    \A c \in Children :
        /\ stdinLog[c] # <<>> => \A k \in Children : Launched(k)
        /\ "refresh" \in Called(stdinLog[c]) =>
              /\ stdinLog[c] = <<"script", "refresh">>
              /\ Done("settle")

\* C19 amended: text reaches a child's stdin only after both launches, and
\* the refresh commands reach it only after main has passed the write of its
\* initial script (done, failed or skipped) and then the settle delay.
C19_RefreshOnlyAfterScriptStep ==
    \A d \in DeliverySteps :
        d.text \in Called(stdinLog[d.to]) =>
            /\ \A k \in Children : Launched(k)
            /\ Before("launch_geometry", d.step) /\ Before("launch_trefftz", d.step)
            /\ d.text = "refresh" =>
                  /\ Before("send_" \o d.to, "settle")
                  /\ Before("settle", d.step)
                  /\ stdinLog[d.to] \in {<<"refresh">>, <<"script", "refresh">>}

C19_Witness ==
    /\ pc = "verify_alive"
    /\ stdinLog["geometry"] = <<"refresh">>
    /\ stdinLog["trefftz"] = <<"script", "refresh">>
    /\ warnings = {}

\* C20 as stated: the capture is started after the placement watcher and
\* before main writes the command scripts.
C20_CaptureStartedBeforeScripts ==
    cpc # "idle" =>
        /\ Before("manage_windows", "schedule_capture")
        /\ ~Before("send_geometry", "schedule_capture")
        /\ ~Before("send_trefftz", "schedule_capture")

\* C20 amended: the capture is started after the placement watcher, the
\* command scripts, the refresh commands and a liveness check that found
\* both children running, and before main waits for the geometry child.
C20_CaptureStartedAfterLivenessCheck ==
    /\ cpc # "idle" =>
          /\ Len(trace) >= 13
          /\ SubSeq(trace, 5, 13) = <<"manage_windows", "send_geometry", "send_trefftz",
                                     "wait_watcher", "settle", "refresh_geometry",
                                     "refresh_trefftz", "verify_alive",
                                     "schedule_capture">>
          /\ aliveAtCheck = [c \in Children |-> "alive"]
    /\ Done("wait_geometry") => Before("schedule_capture", "wait_geometry")
    /\ returns # [c \in Children |-> None] => Done("schedule_capture")

C20_Witness ==
    /\ pc = "wait_geometry"
    /\ cpc = "polling"
    /\ cPolls = 0
    /\ trace[Len(trace)] = "schedule_capture"
    /\ stdinLog = [c \in Children |-> <<"script", "refresh">>]

\* the _move_window calls of the latest iteration made for child c
CallsFor(c) ==
    LET ForC(e) == e.who = c
    IN  SelectSeq(wCalls, ForC)

\* C11: on a screen of width 0 or height 0 the planner gives its two
\* rectangles, one of them at least without area, and run() calls
\* _move_window for no rectangle without area.
C11_NoMoveToZeroArea ==
    (wRects # NoRects /\ (screen.width = 0 \/ screen.height = 0)) =>
        /\ \E i \in 1..2 : ~PositiveArea(wRects[i])
        /\ \A i \in DOMAIN wCalls : PositiveArea(wCalls[i].rect)

\* C16 as stated: a process for which a move attempt failed is Positioned
\* all the same, and that attempt is the only move call made for it.
C16_PositionedAfterFailedMove ==
    \A c \in Children :
        (\E i \in DOMAIN wCalls : wCalls[i].who = c /\ ~wCalls[i].ok) =>
            /\ wWindow[c] # None
            /\ wMoveCount[c] = 1

\* C16 amended: a process becomes Positioned only in a pass in which a move
\* succeeded, on the handle of that move, which is the last call made for
\* it; after a pass in which every move for it failed, with every handle
\* found tried, it is still Searching; and once it is Positioned no further
\* discovery or move call is made for it.
C16_PositionedOnlyBySuccessfulMove ==
    [][ \A c \in Children :
          /\ wWindow[c] # None =>
                /\ wWindow'[c] = wWindow[c]
                /\ wMoveCount'[c] = wMoveCount[c]
                /\ wFound'[c] = <<>> \/ UNCHANGED <<wFound, wCalls>>
          /\ (wWindow[c] = None /\ wMoveCount'[c] > wMoveCount[c]) =>
                LET mine == CallsFor(c)'
                    n == Len(mine)
                IN  /\ n = wMoveCount'[c] - wMoveCount[c]
                    /\ \A i \in 1..(n - 1) : ~mine[i].ok
                    /\ IF mine[n].ok
                       THEN wWindow'[c] = mine[n].hwnd
                       ELSE /\ wWindow'[c] = None
                            /\ {mine[i].hwnd : i \in 1..n} = Called(wFound'[c])
          /\ (wWindow[c] = None /\ wWindow'[c] # None) =>
                wMoveCount'[c] > wMoveCount[c]
      ]_vars

C16_Witness ==
    /\ wpc = "polling"
    /\ wPolls = 2
    /\ wWindow["geometry"] = None
    /\ wFound["geometry"] = <<Handle("geometry", 1)>>
    /\ CallsFor("geometry") = << [who |-> "geometry", hwnd |-> Handle("geometry", 1),
                                  rect |-> TargetRect("geometry"), ok |-> FALSE] >>
    /\ wMoveCount["geometry"] = 2

\* C18: in a pass run() makes at most one move call for a process, and it is
\* for the first handle discovery returned in that pass.
C18_OnlyFirstHandleMoved ==
    \A c \in Children :
        /\ Len(CallsFor(c)) <= 1
        /\ \A i \in DOMAIN wCalls :
              wCalls[i].who = c => wCalls[i].hwnd = wFound[c][1]

\* C21 .. C30

\* C21: main waits for the geometry child first and records its code; then
\* it takes the Trefftz child's code at once if that child has exited and
\* otherwise waits until it exits; and main returns 0 only when both children
\* have exited.
C21_TrefftzCodeAfterGeometry ==
    [][ /\ pc' = "poll_trefftz" => pc \in {"wait_geometry", "poll_trefftz"}
        /\ pc' = "wait_trefftz" => pc \in {"poll_trefftz", "wait_trefftz"}
        /\ (pc = "wait_geometry" /\ pc' = "poll_trefftz") =>
              /\ child["geometry"].status = "exited"
              /\ returns' = [returns EXCEPT !["geometry"] = child["geometry"].code]
              /\ returns'["trefftz"] = None
        /\ (pc = "poll_trefftz" /\ pc' = "join_capture") =>
              /\ child["trefftz"].status = "exited"
              /\ returns' = [returns EXCEPT !["trefftz"] = child["trefftz"].code]
        /\ (pc = "poll_trefftz" /\ pc' = "wait_trefftz") =>
              /\ child["trefftz"].status = "running"
              /\ returns' = returns
        /\ (pc = "wait_trefftz" /\ pc' = "join_capture") =>
              /\ child["trefftz"].status = "exited"
              /\ returns' = [returns EXCEPT !["trefftz"] = child["trefftz"].code]
        /\ (pc' = "done" /\ outcome' = "returned" /\ result' = 0) =>
              /\ \A c \in Children : child'[c].status = "exited"
              /\ \A c \in Children : returns'[c] = child'[c].code
              /\ Before("wait_geometry", "poll_trefftz")'
      ]_vars

C21_Witness ==
    /\ MainReturned
    /\ result = 0
    /\ Before("wait_geometry", "poll_trefftz")
    /\ Before("poll_trefftz", "wait_trefftz")
    /\ \A c \in Children : child[c] = Exited(0)

\* C22: a started watcher ends; it ends before its deadline exactly in the
\* pass after which every tracked process has a window, and a pass begun
\* after the deadline makes no discovery and no move call.
C22_WatcherTerminates ==
    /\ (wpc = "polling") ~> (wpc = "finished")
    /\ [](wpc = "polling" => Searching # {})
    /\ [](wpc = "finished" => (Searching = {} \/ wExpired))
    /\ [][ /\ (wpc = "polling" /\ Searching' = {}) => wpc' = "finished"
           /\ (wpc = "polling" /\ wExpired /\ wpc' # wpc) =>
                 /\ wpc' = "finished"
                 /\ UNCHANGED <<wWindow, wFound, wCalls, wMoveCount, wPolls>>
                 /\ wLog' = Searching
         ]_vars

C22_Witness ==
    /\ wpc = "finished"
    /\ ~wExpired
    /\ wPolls = 1
    /\ wPid = [c \in Children |-> PidOf(c)]
    /\ Searching = {}
    /\ wMoveCount["geometry"] >= 2

\* C23: when a placement watcher was started, main is past the grace wait
\* (and so sends the refresh commands) only with the watcher finished or the
\* grace period used up, which main logs as a warning.
C23_RefreshAfterWatcherOrGrace ==
    (Done("wait_watcher") /\ wpc # "idle" /\ pc # "done") =>
        (wpc = "finished" \/ "watcher_still_running" \in warnings)

\* C24: a window handle, once recorded for a process, is never changed or
\* cleared; it is recorded for a tracked process only, and it is a handle
\* discovery returned for that process in the pass that recorded it.
C24_WindowRecordedOnce ==
    [][ \A c \in Children :
          /\ wWindow[c] # None => wWindow'[c] = wWindow[c]
          /\ wPid[c] = None => wWindow'[c] = None
          /\ (wWindow[c] = None /\ wWindow'[c] # None) =>
                /\ wWindow'[c] \in Called(wFound'[c])
                /\ wWindow'[c] \div 10 = wPid[c]
      ]_vars

C24_Witness ==
    /\ wPolls = 2
    /\ wWindow["geometry"] = Handle("geometry", 2)
    /\ wFound["geometry"] = <<>>
    /\ wWindow["trefftz"] = None
    /\ wFound["trefftz"] # <<>>

\* C25: a poll that met a read error logs nothing and changes nothing, and
\* the call polls on; when a later poll reads a report whose first match is
\* a float, the call returns that value and writes the summary as it does
\* without the error; the only warning of a call that read no value is the
\* one of the time-out, with which it returns None.
C25_ReadErrorIsRetried ==
    "read_error" \in cMatched =>
        /\ cPolls >= 1
        /\ cpc = "polling" =>
              /\ cLog = {}
              /\ summary = NoSummary
              /\ summaryWrites = 0
        /\ "float" \notin cMatched =>
              /\ cLog \subseteq {"timeout"}
              /\ "timeout" \in cLog <=> cpc = "returned"
              /\ ~cResult.some
              /\ summary = NoSummary
        /\ "float" \in cMatched =>
              /\ cpc = "returned"
              /\ cLog \subseteq {"write_failed"}
              /\ \E i \in DOMAIN report.lines :
                    /\ FirstMatchAt(i)
                    /\ cResult = FloatOf(report.lines[i].tok)
                    /\ cResult.some
                    /\ IF "write_failed" \in cLog
                       THEN summary = NoSummary
                       ELSE /\ summaryWrites = 1
                            /\ summary.exists
                            /\ summary.line1 = "Xnp"
                            /\ summary.line2 = SixDecimalsOf(report.lines[i].tok)

C25_Witness ==
    /\ "read_error" \in cMatched
    /\ cpc = "returned"
    /\ cPolls = 1
    /\ cResult = FloatOf(<<"-", ".", "5">>)
    /\ summaryWrites = 1
    /\ summary.line2 = <<"-", "0", ".", "5", "0", "0", "0", "0", "0">>
    /\ cLog = {}

\* C26: when preparing the assets or locating the executable fails, main
\* returns 1 with no child spawned, no watcher and no capture started; and
\* after a failed spawn main returns 1 with terminate() called on every
\* child that runs.
C26_NoChildAfterFatalLaunchError ==
    /\ (MainReturned /\ failure.kind \in {"prepare", "executable"}) =>
          /\ result = 1
          /\ child = [c \in Children |-> NotLaunched]
          /\ termCalls = <<>>
          /\ wpc = "idle" /\ cpc = "idle"
          /\ stdinLog = [c \in Children |-> <<>>]
          /\ trace \in {<<"prepare">>, <<"prepare", "build_command">>}
    /\ (MainReturned /\ failure.kind = "launch") =>
          /\ result = 1
          /\ child[failure.who] = NotLaunched
          /\ \A c \in Children :
                child[c].status = "running" => c \in Called(termCalls)
          /\ wpc = "idle" /\ cpc = "idle"
    /\ (Launched("geometry") \/ Launched("trefftz")) =>
          Before("prepare", "build_command")

C26_Witness ==
    /\ MainReturned
    /\ failure = Failure("executable", "-", None)
    /\ result = 1
    /\ orchAttrs # ShippedAttrs
    /\ child = [c \in Children |-> NotLaunched]

\* C27: the two rectangles lie inside the right half of the screen and cover
\* it exactly, the geometry rectangle being the left part of that half and
\* the Trefftz rectangle the right part, both of full height.
C27_SideBySideInRightHalf ==
    wRects # NoRects =>
        LET g == wRects[1]
            t == wRects[2]
            half_left == screen.width \div 2
        IN  /\ \A r \in {g, t} :
                  /\ half_left <= r.left /\ r.left + r.width <= screen.width
                  /\ 0 <= r.top /\ r.top + r.height <= screen.height
                  /\ r.width >= 0 /\ r.height >= 0
            /\ ~Overlap(g, t)
            /\ g.width * g.height + t.width * t.height
                  = (screen.width - half_left) * screen.height
            /\ g.left = half_left
            /\ g.left + g.width = t.left
            /\ t.left + t.width = screen.width
            /\ g.top = 0 /\ g.height = screen.height
            /\ t.top = 0 /\ t.height = screen.height

\* what the watcher thread writes: its two window fields, and in the model
\* its loop's locals and its log
watcherOwn == <<wWindow, wPolls, wExpired, wSeen, wFound, wMoves, wLog,
                wCalls, wMoveCount>>

\* what the capture thread writes: the summary file, and in the model its
\* locals, its return value and its log
captureOwn == <<summary, summaryWrites, cResult, cPolls, cExpired, cMatched,
                cLog>>

\* C28: once the watcher polls, the tracked pids and the target rectangles
\* do not change; a step of main changes no field of a watcher or of the
\* capture beyond starting them; a step of the placement watcher changes its
\* own fields only; and a step of the capture changes the summary file and
\* its own locals only.
C28_NoSharedMutableState ==
    [][ /\ wpc # "idle" => UNCHANGED <<wPid, wRects, isWindows, screen>>
        /\ mainVars' # mainVars =>
              /\ UNCHANGED <<watcherOwn, captureOwn, report>>
              /\ wpc' # wpc =>
                    /\ pc = "manage_windows" /\ wpc = "idle" /\ wpc' = "polling"
                    /\ InitWatcher
              /\ cpc' # cpc =>
                    /\ pc = "schedule_capture" /\ cpc = "idle" /\ cpc' = "polling"
                    /\ InitCapture
        /\ (watcherOwn' # watcherOwn \/ (wpc = "polling" /\ wpc' # wpc)) =>
              UNCHANGED <<mainVars, captureVars, wPid, wRects>>
        /\ (captureOwn' # captureOwn \/ (cpc = "polling" /\ cpc' # cpc)) =>
              UNCHANGED <<mainVars, watcherVars, report>>
      ]_vars

C28_Witness ==
    /\ pc = "wait_geometry"
    /\ wpc = "polling" /\ wPolls = 1 /\ wMoveCount["geometry"] = 1
    /\ cpc = "polling" /\ cPolls = 1
    /\ wPid = [c \in Children |-> PidOf(c)]
    /\ wRects = ComputeTargetRectangles(MainScreen.width, MainScreen.height)

\* the handles of a sequence of windows, in its order
HandlesOf(ws) == [i \in 1..Len(ws) |-> ws[i].hwnd]

\* C29 as stated: discovery for a pid returns, in enumeration order, exactly
\* the windows that are visible, owned by that pid and have a title that is
\* not empty.
C29_ExactlyVisibleOwnedTitled ==
    collected.pid # None =>
        LET Qualifies(w) == w.visible /\ w.pid = collected.pid /\ w.title # <<>>
        IN  collected.hwnds = HandlesOf(SelectSeq(desktop, Qualifies))

\* C29 amended: discovery for a pid returns, in enumeration order, exactly
\* the windows that are visible, owned by that pid and have a title with a
\* character that is not white space; for a pid that owns no such window
\* (no process has it, for one) that is the empty list.
C29_ExactlyVisibleOwnedNonBlankTitle ==
    collected.pid # None =>
        LET Qualifies(w) ==
                /\ w.visible
                /\ w.pid = collected.pid
                /\ \E i \in DOMAIN w.title : w.title[i] # " "
        IN  /\ collected.hwnds = HandlesOf(SelectSeq(desktop, Qualifies))
            /\ (\A i \in DOMAIN desktop : desktop[i].pid # collected.pid) =>
                  collected.hwnds = <<>>

C29_Witness ==
    /\ collected = [pid |-> 1, hwnds |-> <<1>>]
    /\ Len(desktop) = 2
    /\ desktop[1] = [hwnd |-> 2, visible |-> TRUE, pid |-> 1, title |-> <<" ">>]
    /\ desktop[2] = [hwnd |-> 1, visible |-> TRUE, pid |-> 1, title |-> <<" ", "A", " ">>]

\* a step that is one pass of the watcher's loop before the deadline
WatcherPass == wpc = "polling" /\ ~wExpired /\ wExpired' = wExpired

\* C30: in a pass of the loop no discovery and no move call is made for a
\* process that has a window; a process receives at most one successful
\* move, in the pass that records its window; and for a process without a
\* window every pass before the deadline runs discovery and tries the
\* handles found, and the loop goes on while such a process is left.
C30_NoCallsOncePositioned ==
    [][ WatcherPass =>
          \A c \in Children :
              IF c \notin Searching
              THEN /\ wFound'[c] = <<>>
                   /\ wMoveCount'[c] = wMoveCount[c]
                   /\ wWindow'[c] = wWindow[c]
                   /\ \A i \in DOMAIN wCalls' : wCalls'[i].who # c
              ELSE /\ wFound'[c] \in windows[c]
                   /\ wFound'[c] # <<>> => wMoveCount'[c] > wMoveCount[c]
                   /\ \A i, j \in DOMAIN wCalls' :
                         ( /\ wCalls'[i].who = c /\ wCalls'[i].ok
                           /\ wCalls'[j].who = c /\ wCalls'[j].ok ) => i = j
                   /\ (\E i \in DOMAIN wCalls' : wCalls'[i].who = c /\ wCalls'[i].ok)
                         <=> wWindow'[c] # None
                   /\ wWindow'[c] = None =>
                         /\ wpc' = "polling"
                         /\ wPolls' = wPolls + 1
      ]_vars

C30_Witness ==
    /\ wpc = "polling"
    /\ wPolls = 2
    /\ wWindow["trefftz"] = Handle("trefftz", 1)
    /\ wMoveCount["trefftz"] = 1
    /\ wFound["trefftz"] = <<>>
    /\ wWindow["geometry"] = None
    /\ wMoveCount["geometry"] = 4

\* C31 .. C36

\* both children have exited with codes other than 0
BothExitedNonZero ==
    \A c \in Children : child[c].status = "exited" /\ child[c].code # 0

\* C31 as stated: when both children have exited with non-zero codes, main
\* returns 1 and its one failure names the geometry instance and its code.
C31_GeometryReportedWhenBothFail ==
    (MainReturned /\ BothExitedNonZero) =>
        /\ result = 1
        /\ failure.who = "geometry"
        /\ failure.code = child["geometry"].code

\* C31 amended: when both children have exited with non-zero codes, main
\* returns 1 with one failure.  If both were running at the liveness check,
\* it is the final check's and names the geometry instance and its code; if
\* the geometry child had gone at the liveness check, it is that check's and
\* names the geometry instance and its code; if the liveness check found the
\* geometry child running and the Trefftz child gone, it is that check's and
\* names the Trefftz instance and its code.
C31_FirstFailureFoundIsReported ==
    (MainReturned /\ BothExitedNonZero) =>
        /\ result = 1
        /\ failure =
              IF aliveAtCheck["geometry"] = "exited"
              THEN Failure("crashed", "geometry", child["geometry"].code)
              ELSE IF aliveAtCheck["trefftz"] = "exited"
              THEN Failure("crashed", "trefftz", child["trefftz"].code)
              ELSE Failure("nonzero", "geometry", child["geometry"].code)
        /\ (\A c \in Children : aliveAtCheck[c] = "alive") =>
              /\ returns = [c \in Children |-> child[c].code]
              /\ trace[Len(trace)] = "final_status"

C31_Witness ==
    /\ MainReturned
    /\ aliveAtCheck = [c \in Children |-> "alive"]
    /\ child["geometry"] = Exited(1)
    /\ child["trefftz"] = Exited(2)
    /\ failure = Failure("nonzero", "geometry", 1)
    /\ result = 1

\* C32: once the write of the summary has failed, the capture call has
\* logged the warning and returned the value parsed from the report's first
\* match, no summary has been written, and from then on the call does
\* nothing more: it polls no further, writes nothing and logs nothing.
C32_WriteFailureReturnsValueOnce ==
    /\ []("write_failed" \in cLog =>
             /\ cpc = "returned"
             /\ cResult.some
             /\ \E i \in DOMAIN report.lines :
                   FirstMatchAt(i) /\ cResult = FloatOf(report.lines[i].tok)
             /\ summaryWrites = 0
             /\ summary = NoSummary
             /\ cLog = {"write_failed"})
    /\ [][ "write_failed" \in cLog =>
             UNCHANGED <<summary, summaryWrites, cpc, cResult, cPolls, cLog>> ]_vars

C32_Witness ==
    /\ "write_failed" \in cLog
    /\ cpc = "returned"
    /\ cResult = FloatOf(<<"-", ".", "5">>)
    /\ cPolls > 0
    /\ summary = NoSummary

(***************************************************************************)
(* manage_windows_async on its own, called with any combination of its     *)
(* three process-id arguments, on Windows or not                           *)
(***************************************************************************)
\* the process id passed as the legacy argument `pid`
LegacyPid == 3

\* A mutant of the resolution: the legacy pid is tracked whenever it is given.
ResolvePidsLegacyFirst(geometry_pid, trefftz_pid, pid) ==
    [geometry |-> IF pid # None THEN pid ELSE geometry_pid,
     trefftz |-> trefftz_pid]

\* the process ids the watcher is created with (lines 72-79): the legacy
\* pid becomes the geometry pid only if no explicit id is given
ResolvePids(geometry_pid, trefftz_pid, pid) ==
    [geometry |-> IF pid # None /\ geometry_pid = None /\ trefftz_pid = None
                  THEN pid ELSE geometry_pid,
     trefftz |-> trefftz_pid]

\* what manage_windows_async logs before it returns or starts the watcher
\* (lines 68-83)
ManageLog(geometry_pid, trefftz_pid, pid) ==
    IF ~isWindows THEN "skipping"
    ELSE IF pid # None /\ (geometry_pid # None \/ trefftz_pid # None)
    THEN "pid ignored"
    ELSE IF pid = None /\ geometry_pid = None /\ trefftz_pid = None
    THEN "no pids"
    ELSE "-"

InitManage ==
    /\ NotInMain
    /\ InitWatcher
    /\ NoWatchFile
    /\ NoSweep
    /\ NoDiscoveryCall
    /\ InitCapture
    /\ isWindows \in BOOLEAN
    /\ screen = [width |-> MaxScreen, height |-> MaxScreen]
    /\ windows = [c \in Children |-> WindowLists(c, 1)]
    /\ report = Absent

\* manage_windows_async (lines 50-91) and, when a watcher is started, the
\* start of its run() (112-125)
ManageWindowsAsync ==
    /\ pc = "lib"
    /\ wpc = "idle"
    /\ mwCall = NoManageCall
    /\ \E geometry_pid \in {None, PidOf("geometry")},
          trefftz_pid \in {None, PidOf("trefftz")},
          pid \in {None, LegacyPid} :
         LET tracked == ResolvePids(geometry_pid, trefftz_pid, pid)
         IN  /\ mwCall' = [geometry_pid |-> geometry_pid,
                           trefftz_pid |-> trefftz_pid,
                           pid |-> pid,
                           logged |-> ManageLog(geometry_pid, trefftz_pid, pid)]
             /\ IF ~isWindows
                   \/ (tracked["geometry"] = None /\ tracked["trefftz"] = None)
                THEN UNCHANGED <<wpc, wPid, wRects>>
                ELSE /\ wPid' = [c \in Children |-> tracked[c]]
                     /\ wRects' = ComputeTargetRectangles(screen.width,
                                                          screen.height)
                     /\ wpc' = "polling"
    /\ UNCHANGED <<isWindows, screen, wWindow, wPolls, wExpired, wSeen,
                   windows, desktop, collected, wMoves, wLog, wCalls,
                   wMoveCount, wFound>>
    /\ UNCHANGED <<mainVars, captureVars, watchVars, sweepVars>>

NextManage ==
    \/ ManageWindowsAsync
    \/ WatcherPoll
    \/ WatcherDeadlinePasses

SpecManage == InitManage /\ [][NextManage]_vars

\* the watcher has done nothing: no pass, no discovery, no move
WatcherNeverRan ==
    /\ wpc = "idle"
    /\ wPid = [c \in Children |-> None]
    /\ wPolls = 0
    /\ wSeen = [c \in Children |-> FALSE]
    /\ wFound = [c \in Children |-> <<>>]
    /\ wMoves = [c \in Children |-> <<>>]
    /\ wCalls = <<>>
    /\ wMoveCount = [c \in Children |-> 0]
    /\ wWindow = [c \in Children |-> None]

\* C33: after a call of manage_windows_async on Windows, a legacy pid given
\* alone is tracked as the geometry process and no Trefftz process is
\* tracked; a legacy pid given with an explicit id is ignored and exactly
\* the explicit ids are tracked; without a legacy pid exactly the explicit
\* ids are tracked.  When no id at all is given, or off Windows, no watcher
\* is started: it never makes a pass, a discovery call or a move call.
C33_PidsResolvedAsDocumented ==
    mwCall # NoManageCall =>
        LET explicit == mwCall.geometry_pid # None \/ mwCall.trefftz_pid # None
        IN  IF ~isWindows \/ (~explicit /\ mwCall.pid = None)
            THEN WatcherNeverRan
            ELSE /\ wpc # "idle"
                 /\ wPid = IF explicit
                           THEN [geometry |-> mwCall.geometry_pid,
                                 trefftz |-> mwCall.trefftz_pid]
                           ELSE [geometry |-> mwCall.pid, trefftz |-> None]
                 /\ \A c \in Children :
                       wPid[c] = None =>
                          /\ wWindow[c] = None
                          /\ wFound[c] = <<>>
                          /\ wMoveCount[c] = 0

C33_Witness ==
    /\ isWindows
    /\ mwCall.pid = LegacyPid
    /\ mwCall.geometry_pid = None
    /\ mwCall.trefftz_pid = PidOf("trefftz")
    /\ mwCall.logged = "pid ignored"
    /\ wPid = [geometry |-> None, trefftz |-> PidOf("trefftz")]
    /\ wpc = "finished"
    /\ wWindow["trefftz"] # None

(***************************************************************************)
(* watch_file.py: main watches one path whose file is modified, deleted,   *)
(* re-created or made inaccessible at any moment                           *)
(***************************************************************************)
\* modification times are 0 .. MaxMtime
MaxMtime == 1

\* what a path can be
FileStates == {Missing, Denied} \cup (0..MaxMtime)

\* the intervals main is run with: time.sleep raises ValueError for a
\* negative one
Intervals == {-1, 0, 1}

\* os.path.exists(path), line 38: False for a missing path and for one whose
\* stat fails
Exists(file) == file \notin {Missing, Denied}

\* get_mtime (lines 27-31): the modification time, None when the file is
\* not found; any other OSError is not caught
GetMtime(file) ==
    [raised |-> file = Denied, value |-> IF file = Denied THEN Unset ELSE file]

\* A mutant of the comparison: a file that has gone is not a change.
ChangedUnlessDeleted(current, baseline) ==
    current # None /\ current # baseline

\* `current_mtime != baseline_mtime`, line 47
Changed(current, baseline) == current # baseline

InitWatchFile ==
    /\ NotInMain
    /\ InitWatcher
    /\ NoSweep
    /\ NoDiscoveryCall
    /\ InitCapture
    /\ isWindows = FALSE
    /\ screen = MainScreen
    /\ windows = [c \in Children |-> {<<>>}]
    /\ report = Absent
    /\ wfpc = "start"
    /\ interval \in Intervals
    /\ wfFile \in FileStates
    /\ baseline_mtime = Unset
    /\ current_mtime = Unset
    /\ wfPolls = 0
    /\ wfResult = None
    /\ wfPrinted = <<>>

\* lines 35-40: the existence test
WatchExists ==
    /\ wfpc = "start"
    /\ IF Exists(wfFile)
       THEN /\ wfpc' = "baseline"
            /\ UNCHANGED <<wfResult, wfPrinted>>
       ELSE /\ wfpc' = "returned"
            /\ wfResult' = 1
            /\ wfPrinted' = Append(wfPrinted, "error: file not found")
    /\ UNCHANGED <<interval, wfFile, baseline_mtime, current_mtime, wfPolls>>
    /\ UNCHANGED <<mainVars, watcherVars, captureVars, sweepVars>>

\* line 42: the baseline is taken
WatchBaseline ==
    /\ wfpc = "baseline"
    /\ IF GetMtime(wfFile).raised
       THEN wfpc' = "raised" /\ baseline_mtime' = baseline_mtime
       ELSE wfpc' = "polling" /\ baseline_mtime' = GetMtime(wfFile).value
    /\ UNCHANGED <<interval, wfFile, current_mtime, wfPolls, wfResult, wfPrinted>>
    /\ UNCHANGED <<mainVars, watcherVars, captureVars, sweepVars>>

\* one pass of `while True` (lines 45-50)
WatchPoll ==
    /\ wfpc = "polling"
    /\ wfPolls < MaxPolls
    /\ IF GetMtime(wfFile).raised
       THEN /\ wfpc' = "raised"
            /\ UNCHANGED <<current_mtime, wfPolls, wfResult, wfPrinted>>
       ELSE /\ current_mtime' = GetMtime(wfFile).value
            /\ IF Changed(current_mtime', baseline_mtime)
               THEN /\ wfPrinted' = Append(wfPrinted, "True")
                    /\ wfResult' = 0
                    /\ wfpc' = "returned"
                    /\ wfPolls' = wfPolls
               ELSE /\ wfpc' = IF interval < 0 THEN "raised" ELSE "polling"
                    /\ wfPolls' = wfPolls + 1
                    /\ UNCHANGED <<wfResult, wfPrinted>>
    /\ UNCHANGED <<interval, wfFile, baseline_mtime>>
    /\ UNCHANGED <<mainVars, watcherVars, captureVars, sweepVars>>

\* Ctrl-C: caught inside the try statement only (lines 44-53)
WatchInterrupt ==
    /\ wfpc \in {"start", "baseline", "polling"}
    /\ IF wfpc = "polling"
       THEN wfpc' = "returned" /\ wfResult' = 130
       ELSE wfpc' = "raised" /\ wfResult' = wfResult
    /\ UNCHANGED <<interval, wfFile, baseline_mtime, current_mtime, wfPolls,
                   wfPrinted>>
    /\ UNCHANGED <<mainVars, watcherVars, captureVars, sweepVars>>

\* another process writes, deletes, re-creates or locks away the file
FileChanges ==
    /\ wfpc \in {"start", "baseline", "polling"}
    /\ \E f \in FileStates \ {wfFile} : wfFile' = f
    /\ UNCHANGED <<wfpc, interval, baseline_mtime, current_mtime, wfPolls,
                   wfResult, wfPrinted>>
    /\ UNCHANGED <<mainVars, watcherVars, captureVars, sweepVars>>

NextWatchFile ==
    \/ WatchExists
    \/ WatchBaseline
    \/ WatchPoll
    \/ WatchInterrupt
    \/ FileChanges

SpecWatchFile == InitWatchFile /\ [][NextWatchFile]_vars

\* C34: main returns 1 exactly from the existence test, for a path that does
\* not exist then, before any baseline or pass; a path that exists goes on
\* to the baseline.  Each completed pass reads the modification time as it
\* is (None for a file that has gone): if it differs from the baseline the
\* pass prints True and main returns 0, otherwise main goes on.  An
\* interrupt during polling returns 130.  main returns 0, 1 or 130 only, and
\* has returned 0 only with an observed time that differs from the baseline.
C34_ReturnsOnChangeOnly ==
    /\ [](/\ wfResult \in {None, 0, 1, 130}
          /\ (wfResult # None) <=> (wfpc = "returned")
          /\ wfResult = 1 =>
                /\ ~Exists(wfFile)
                /\ baseline_mtime = Unset /\ current_mtime = Unset
                /\ wfPolls = 0
                /\ wfPrinted = <<"error: file not found">>
          /\ wfResult = 0 =>
                /\ baseline_mtime # Unset /\ current_mtime # Unset
                /\ current_mtime # baseline_mtime
                /\ current_mtime = wfFile
                /\ wfPrinted = <<"True">>
          /\ wfResult = 130 => baseline_mtime # Unset /\ wfPrinted = <<>>
          /\ wfResult \in {None, 130} /\ current_mtime # Unset =>
                current_mtime = baseline_mtime)
    /\ [][ /\ (wfpc = "start" /\ wfpc' \notin {"start", "raised"}) =>
                IF Exists(wfFile)
                THEN wfpc' = "baseline" /\ wfResult' = None
                ELSE wfResult' = 1
           /\ (wfpc = "polling" /\ wfpc' # "raised" /\ wfResult' # 130
                 /\ <<wfpc, wfPolls>>' # <<wfpc, wfPolls>>) =>
                /\ current_mtime' = wfFile
                /\ IF wfFile # baseline_mtime
                   THEN wfResult' = 0 /\ wfPolls' = wfPolls
                   ELSE wfResult' = None /\ wfPolls' = wfPolls + 1
           /\ (wfpc = "polling" /\ wfResult' = 130) =>
                UNCHANGED <<wfPrinted, current_mtime, baseline_mtime, wfPolls>>
         ]_vars

C34_Witness ==
    /\ wfpc = "returned"
    /\ wfResult = 0
    /\ baseline_mtime = 0
    /\ current_mtime = Missing
    /\ wfPolls > 0
    /\ wfPrinted = <<"True">>

(***************************************************************************)
(* create_flight_envelope.py: main, run with whole-number angles, writes   *)
(* the run file and, if asked to, the command script                       *)
(***************************************************************************)
\* alpha_min and alpha_max are -MaxAlpha .. MaxAlpha, alpha_step is
\* -1 .. MaxStep
MaxAlpha == 2
MaxStep == 2

\* the list `alphas` holds MaxCases elements at most: appending to a full
\* list raises MemoryError.  A sweep with a positive step over the angles
\* above needs 2 * MaxAlpha + 1 elements at most.
MaxCases == 2 * MaxAlpha + 2

Angles == (-MaxAlpha)..MaxAlpha
Steps == (-1)..MaxStep

Abs(n) == IF n < 0 THEN -n ELSE n

\* int(a / b) for whole numbers a and b # 0 (line 166): the quotient is
\* truncated towards zero
IntOfQuotient(a, b) ==
    IF (a < 0) = (b < 0) THEN Abs(a) \div Abs(b) ELSE -(Abs(a) \div Abs(b))

\* the numbers a script written for n cases selects: range(1, n + 1)
\* (line 108)
CaseNumbers(n) == [i \in 1..n |-> i]

InitSweep ==
    /\ NotInMain
    /\ InitWatcher
    /\ NoWatchFile
    /\ NoDiscoveryCall
    /\ InitCapture
    /\ isWindows = FALSE
    /\ screen = MainScreen
    /\ windows = [c \in Children |-> {<<>>}]
    /\ report = Absent
    /\ epc = "sweep"
    /\ args \in [alpha_min : Angles, alpha_max : Angles, alpha_step : Steps,
                 create_commands : BOOLEAN]
    /\ alpha = args.alpha_min
    /\ alphas = <<>>
    /\ runCases = NoFile
    /\ num_cases = None
    /\ cmdCases = NoFile

\* the test of `while alpha <= alpha_max` and, if it holds, one pass of the
\* loop (lines 27-29)
SweepStep ==
    /\ epc = "sweep"
    /\ IF alpha <= args.alpha_max
       THEN IF Len(alphas) < MaxCases
            THEN /\ alphas' = Append(alphas, alpha)
                 /\ alpha' = alpha + args.alpha_step
                 /\ epc' = epc
            ELSE /\ epc' = "raised"
                 /\ UNCHANGED <<alpha, alphas>>
       ELSE /\ epc' = "write"
            /\ UNCHANGED <<alpha, alphas>>
    /\ UNCHANGED <<args, runCases, num_cases, cmdCases>>
    /\ UNCHANGED <<mainVars, watcherVars, captureVars, watchVars>>

\* the run file is written, one run case per element of alphas (lines
\* 31-87), and create_run_file returns
WriteRunFile ==
    /\ epc = "write"
    /\ runCases' = alphas
    /\ epc' = IF args.create_commands THEN "commands" ELSE "done"
    /\ UNCHANGED <<args, alpha, alphas, num_cases, cmdCases>>
    /\ UNCHANGED <<mainVars, watcherVars, captureVars, watchVars>>

\* lines 165-171 with create_avl_command_script (90-126); the division
\* raises ZeroDivisionError for a step of zero
CreateCommands ==
    /\ epc = "commands"
    /\ IF args.alpha_step = 0
       THEN /\ epc' = "raised"
            /\ UNCHANGED <<num_cases, cmdCases>>
       ELSE /\ num_cases' = IntOfQuotient(args.alpha_max - args.alpha_min,
                                          args.alpha_step) + 1
            /\ cmdCases' = CaseNumbers(num_cases')
            /\ epc' = "done"
    /\ UNCHANGED <<args, alpha, alphas, runCases>>
    /\ UNCHANGED <<mainVars, watcherVars, captureVars, watchVars>>

NextSweep ==
    \/ SweepStep
    \/ WriteRunFile
    \/ CreateCommands

SpecSweep == InitSweep /\ [][NextSweep]_vars

\* The same with the interpreter running: every step that can be taken is
\* taken in the end.
SpecSweepFair ==
    /\ InitSweep
    /\ [][NextSweep]_vars
    /\ WF_vars(SweepStep)
    /\ WF_vars(WriteRunFile)
    /\ WF_vars(CreateCommands)

\* C35: when main has written the command script for a positive step, the
\* script selects and executes as many run cases as the run file holds.
C35_ScriptRunsTheCasesWritten ==
    (epc = "done" /\ args.create_commands /\ args.alpha_step > 0) =>
        Len(cmdCases) = Len(runCases)

\* C36: the sweep loop of create_run_file always comes to its end with
\* alpha > alpha_max.
C36_SweepTerminates ==
    (epc = "sweep") ~> (epc \in {"write", "commands", "done"}
                          /\ alpha > args.alpha_max)

=============================================================================
